---- MODULE Spec2Model ----
(***************************************************************************)
(* Schema designer: the schema-to-SQL generation path of the repository.   *)
(*                                                                         *)
(* Three parts are modelled, each with its own specification:              *)
(*   SpecDesigner   - the browser SchemaDesigner class (currentSchema, the *)
(*                    table editor, generateSQL into the sqlOutput area);  *)
(*   SpecSql        - GET /schemas/:schemaId/sql, the apiClient call that  *)
(*                    reaches it, and the SQLGenerator it delegates to;    *)
(*   SpecValidation - the request validation middleware.                   *)
(* A statement of generated SQL is a record: its kind, the table and the   *)
(* constraint it names, and its text as the code concatenates it.          *)
(***************************************************************************)
EXTENDS Integers, Sequences, FiniteSets, TLC

VARIABLES
    \* ---- SchemaDesigner ----
    currentSchema,   \* this.currentSchema: [tables, relationships]
    editingTable,    \* this.editingTable: id of the table object in the modal
    sqlOutput,       \* the sqlOutput textarea: sequence of statements
    clock,           \* Date.now(), read by addTable for the table id
    nOps,            \* number of user operations performed so far
    \* ---- GET /:schemaId/sql ----
    db,              \* the SQLite rows: [tables, columns, relationships]
    httpLog,         \* the last HTTP exchange: request and response
    clientCall,      \* the last apiClient.generateSQL call and its outcome
    compiled,        \* the last direct SQLGenerator.generateSchema call
    \* ---- validation middleware ----
    req,             \* the request under validation
    res,             \* the middleware's outcome
    \* ---- POST / PUT /:schemaId/tables ----
    tableReqs,       \* per client: the table request in flight and its response
    \* ---- rate limiting ----
    limiter,         \* RateLimiterMemory: points consumed per key in the window
    rateLog,         \* the last request through the rate-limit middleware
    \* ---- Socket.IO rooms ----
    sockets,         \* [conn, rooms, wire, inbox, departed] of the connected clients
    \* ---- useSchemaStore ----
    store,           \* the zustand state and the async actions in flight
    \* ---- GET /schemas ----
    schemaRows,      \* the rows the list queries read: schemas and collaborators
    listLog          \* the last GET /schemas exchange

designerVars == <<currentSchema, editingTable, sqlOutput, clock, nOps>>
sqlVars == <<db, httpLog, clientCall, compiled>>
validationVars == <<req, res>>
tablesVars == <<tableReqs>>
rateVars == <<limiter, rateLog>>
socketVars == <<sockets>>
storeVars == <<store>>
listVars == <<schemaRows, listLog>>
vars == <<currentSchema, editingTable, sqlOutput, clock, nOps,
          db, httpLog, clientCall, compiled, req, res, tableReqs, limiter, rateLog,
          sockets, store, schemaRows, listLog>>

NULL == "null"
DETACHED == "detached"

(***************************************************************************)
(* Bounds.                                                                 *)
(***************************************************************************)
MaxOps == 5
MaxTables == 3
MaxColumns == 2
MaxRequests == 1
MaxClients == 2
MaxTableRequests == 2
RateLimitPoints == 2
MaxInFlight == 1
MaxStoreCalls == 3

(***************************************************************************)
(* Sequence helpers.                                                       *)
(***************************************************************************)
Range(s) == {s[i] : i \in DOMAIN s}

RECURSIVE Flatten(_)
Flatten(ss) == IF ss = <<>> THEN <<>> ELSE Head(ss) \o Flatten(Tail(ss))

SelectIdx(s, P(_)) == SelectSeq([i \in DOMAIN s |-> i], P)

\* Array.prototype.filter
Filter(s, P(_)) == SelectSeq(s, P)

\* Array.prototype.splice(index, 1)
Splice1(s, index) == [i \in 1..(Len(s) - 1) |-> IF i < index THEN s[i] ELSE s[i + 1]]

\* Array.prototype.join(sep) on strings
RECURSIVE Join(_, _)
Join(strs, sep) ==
    IF strs = <<>> THEN ""
    ELSE IF Len(strs) = 1 THEN strs[1]
    ELSE strs[1] \o sep \o Join(Tail(strs), sep)

(***************************************************************************)
(* SchemaDesigner: data.                                                   *)
(***************************************************************************)
Col(name, type, primaryKey, required, unique) ==
    [name |-> name, type |-> type, primaryKey |-> primaryKey,
     required |-> required, unique |-> unique]

\* onDelete / onUpdate are "" when the relationship object has no such key.
RelWith(id, sourceTable, sourceColumn, targetTable, targetColumn, type, onDelete, onUpdate) ==
    [id |-> id, sourceTable |-> sourceTable, sourceColumn |-> sourceColumn,
     targetTable |-> targetTable, targetColumn |-> targetColumn, type |-> type,
     onDelete |-> onDelete, onUpdate |-> onUpdate]

Rel(id, sourceTable, sourceColumn, targetTable, targetColumn, type) ==
    RelWith(id, sourceTable, sourceColumn, targetTable, targetColumn, type, "", "")

emptySchema == [id |-> "new-schema", tables |-> <<>>, relationships |-> <<>>]

sampleEcommerceSchema ==
    [id |-> "ecommerce",
     tables |-> <<
        [id |-> "users", name |-> "users", columns |-> <<
            Col("id", "INTEGER", TRUE, TRUE, FALSE),
            Col("email", "VARCHAR(255)", FALSE, TRUE, TRUE),
            Col("password_hash", "VARCHAR(255)", FALSE, TRUE, FALSE),
            Col("first_name", "VARCHAR(100)", FALSE, FALSE, FALSE),
            Col("last_name", "VARCHAR(100)", FALSE, FALSE, FALSE),
            Col("created_at", "TIMESTAMP", FALSE, TRUE, FALSE) >>],
        [id |-> "products", name |-> "products", columns |-> <<
            Col("id", "INTEGER", TRUE, TRUE, FALSE),
            Col("name", "VARCHAR(255)", FALSE, TRUE, FALSE),
            Col("description", "TEXT", FALSE, FALSE, FALSE),
            Col("price", "DECIMAL(10,2)", FALSE, TRUE, FALSE),
            Col("stock_quantity", "INTEGER", FALSE, TRUE, FALSE),
            Col("category_id", "INTEGER", FALSE, FALSE, FALSE) >>],
        [id |-> "orders", name |-> "orders", columns |-> <<
            Col("id", "INTEGER", TRUE, TRUE, FALSE),
            Col("user_id", "INTEGER", FALSE, TRUE, FALSE),
            Col("total_amount", "DECIMAL(10,2)", FALSE, TRUE, FALSE),
            Col("status", "VARCHAR(50)", FALSE, TRUE, FALSE),
            Col("created_at", "TIMESTAMP", FALSE, TRUE, FALSE) >>] >>,
     relationships |-> <<
        Rel("user_orders", "users", "id", "orders", "user_id", "one-to-many") >>]

\* Files a user can hand to importSchema (any JSON is accepted as it is).
cyclicSchema ==
    [id |-> "cyclic",
     tables |-> <<
        [id |-> "A", name |-> "A", columns |-> <<
            Col("id", "INTEGER", TRUE, TRUE, FALSE),
            Col("b_id", "INTEGER", FALSE, FALSE, FALSE) >>],
        [id |-> "B", name |-> "B", columns |-> <<
            Col("id", "INTEGER", TRUE, TRUE, FALSE),
            Col("a_id", "INTEGER", FALSE, FALSE, FALSE) >>] >>,
     relationships |-> <<
        Rel("a_b", "A", "id", "B", "a_id", "one-to-many"),
        Rel("b_a", "B", "id", "A", "b_id", "one-to-many") >>]

sharedPairSchema ==
    [id |-> "shared",
     tables |-> <<
        [id |-> "users", name |-> "users", columns |-> <<
            Col("id", "INTEGER", TRUE, TRUE, FALSE) >>],
        [id |-> "orders", name |-> "orders", columns |-> <<
            Col("id", "INTEGER", TRUE, TRUE, FALSE),
            Col("user_id", "INTEGER", FALSE, TRUE, FALSE),
            Col("approved_by", "INTEGER", FALSE, FALSE, FALSE) >>] >>,
     relationships |-> <<
        Rel("user_orders", "users", "id", "orders", "user_id", "one-to-many"),
        Rel("approver_orders", "users", "id", "orders", "approved_by", "one-to-many") >>]

customerSchema ==
    [id |-> "customers",
     tables |-> <<
        [id |-> "Customer", name |-> "Customer", columns |-> <<
            Col("id", "INTEGER", TRUE, TRUE, FALSE) >>],
        [id |-> "customer", name |-> "customer", columns |-> <<
            Col("id", "INTEGER", TRUE, TRUE, FALSE) >>] >>,
     relationships |-> <<
        Rel("dangling", "Customer", "id", "customer", "owner_id", "one-to-many") >>]

cascadeSchema ==
    [id |-> "cascade",
     tables |-> <<
        [id |-> "users", name |-> "users", columns |-> <<
            Col("id", "INTEGER", TRUE, TRUE, FALSE) >>],
        [id |-> "orders", name |-> "orders", columns |-> <<
            Col("id", "INTEGER", TRUE, TRUE, FALSE),
            Col("user_id", "INTEGER", FALSE, TRUE, FALSE) >>] >>,
     relationships |-> <<
        RelWith("user_orders", "users", "id", "orders", "user_id", "one-to-many",
                "CASCADE", "CASCADE") >>]

ImportFiles == {cyclicSchema, sharedPairSchema, customerSchema, cascadeSchema}

\* What a user types into tableNameInput ("" stands for an emptied input).
TypedNames == {"", "users", "Users"}

(***************************************************************************)
(* SchemaDesigner.generateSQL.                                             *)
(***************************************************************************)
\* The clauses generateSQL appends after "name type".
columnClauses(column) ==
    (IF column.primaryKey THEN <<"PRIMARY KEY">> ELSE <<>>)
        \o (IF column.required /\ ~column.primaryKey THEN <<"NOT NULL">> ELSE <<>>)

columnDefinition(column) ==
    "  " \o column.name \o " " \o column.type
        \o (IF column.primaryKey THEN " PRIMARY KEY" ELSE "")
        \o (IF column.required /\ ~column.primaryKey THEN " NOT NULL" ELSE "")

createTableStatement(table) ==
    [kind |-> "CREATE TABLE",
     table |-> table.name,
     constraint |-> "",
     clauses |-> [i \in DOMAIN table.columns |-> columnClauses(table.columns[i])],
     text |-> "CREATE TABLE " \o table.name \o " (\n"
                \o Join([i \in DOMAIN table.columns |-> columnDefinition(table.columns[i])], ",\n")
                \o "\n);\n\n"]

foreignKeyStatement(rel) ==
    [kind |-> "ALTER TABLE",
     table |-> rel.targetTable,
     constraint |-> "fk_" \o rel.targetTable \o "_" \o rel.sourceTable,
     text |-> "ALTER TABLE " \o rel.targetTable \o " ADD CONSTRAINT fk_"
                \o rel.targetTable \o "_" \o rel.sourceTable \o " "
                \o "FOREIGN KEY (" \o rel.targetColumn \o ") REFERENCES "
                \o rel.sourceTable \o "(" \o rel.sourceColumn \o ");\n\n"]

\* generateSQL with each table's foreign keys emitted right after its CREATE TABLE.
generateSQL_inline(schema) ==
    Flatten([i \in DOMAIN schema.tables |->
        <<createTableStatement(schema.tables[i])>>
            \o [k \in DOMAIN SelectSeq(schema.relationships,
                                        LAMBDA r : r.targetTable = schema.tables[i].id) |->
                  foreignKeyStatement(SelectSeq(schema.relationships,
                                        LAMBDA r : r.targetTable = schema.tables[i].id)[k])]])

\* generateSQL with the foreign key of a referencing column written inside its
\* CREATE TABLE, as a REFERENCES clause of the column.
generateSQL_references(schema) ==
    [i \in DOMAIN schema.tables |->
        [createTableStatement(schema.tables[i]) EXCEPT
            !.clauses = [c \in DOMAIN schema.tables[i].columns |->
                columnClauses(schema.tables[i].columns[c])
                    \o (IF \E r \in DOMAIN schema.relationships :
                                /\ schema.relationships[r].targetTable = schema.tables[i].name
                                /\ schema.relationships[r].targetColumn = schema.tables[i].columns[c].name
                         THEN <<"REFERENCES">> ELSE <<>>)]]]
        \o [i \in DOMAIN schema.relationships |-> foreignKeyStatement(schema.relationships[i])]

generateSQL(schema) ==
    [i \in DOMAIN schema.tables |-> createTableStatement(schema.tables[i])]
        \o [i \in DOMAIN schema.relationships |-> foreignKeyStatement(schema.relationships[i])]

(***************************************************************************)
(* SchemaDesigner: operations.  Every operation that changes the schema    *)
(* ends by calling generateSQL, which rewrites the sqlOutput area.         *)
(***************************************************************************)
HasTable(schema, tableId) == \E i \in DOMAIN schema.tables : schema.tables[i].id = tableId

\* tables.find(t => t.id === tableId): the first table with that id
FindTable(schema, tableId) ==
    LET hits == SelectIdx(schema.tables, LAMBDA i : schema.tables[i].id = tableId)
    IN  IF hits = <<>> THEN 0 ELSE hits[1]

Budget == nOps < MaxOps

DesignerFrame == UNCHANGED <<sqlVars, validationVars, tablesVars, rateVars, socketVars, storeVars, listVars>>

newSchema ==
    /\ Budget
    /\ currentSchema' = emptySchema
    /\ editingTable' = NULL
    /\ sqlOutput' = generateSQL(currentSchema')
    /\ nOps' = nOps + 1
    /\ UNCHANGED clock
    /\ DesignerFrame

addTable ==
    /\ Budget
    /\ Len(currentSchema.tables) < MaxTables
    /\ LET newTable == [id |-> "table_" \o ToString(clock),
                        name |-> "new_table",
                        columns |-> <<Col("id", "INTEGER", TRUE, TRUE, FALSE)>>]
       IN  currentSchema' = [currentSchema EXCEPT !.tables = Append(@, newTable)]
    /\ sqlOutput' = generateSQL(currentSchema')
    /\ clock' = clock + 1
    /\ nOps' = nOps + 1
    /\ UNCHANGED editingTable
    /\ DesignerFrame

editTable(tableId) ==
    /\ Budget
    /\ HasTable(currentSchema, tableId)
    /\ editingTable # tableId
    /\ editingTable' = tableId
    /\ nOps' = nOps + 1
    /\ UNCHANGED <<currentSchema, sqlOutput, clock>>
    /\ DesignerFrame

\* The edited table object is the one inside currentSchema.tables, so a
\* column pushed into it is in the schema at once; sqlOutput is not rewritten.
addColumn ==
    /\ Budget
    /\ editingTable \notin {NULL, DETACHED}
    /\ LET i == FindTable(currentSchema, editingTable)
       IN  /\ Len(currentSchema.tables[i].columns) < MaxColumns
           /\ currentSchema' = [currentSchema EXCEPT !.tables[i].columns =
                   Append(@, Col("new_column", "VARCHAR(255)", FALSE, FALSE, FALSE))]
    /\ nOps' = nOps + 1
    /\ UNCHANGED <<editingTable, sqlOutput, clock>>
    /\ DesignerFrame

removeColumn(index) ==
    /\ Budget
    /\ editingTable \notin {NULL, DETACHED}
    /\ LET i == FindTable(currentSchema, editingTable)
       IN  /\ index \in DOMAIN currentSchema.tables[i].columns
           /\ currentSchema' = [currentSchema EXCEPT !.tables[i].columns = Splice1(@, index)]
    /\ nOps' = nOps + 1
    /\ UNCHANGED <<editingTable, sqlOutput, clock>>
    /\ DesignerFrame

\* The column editors hold name, type, PK and Required only: a saved column
\* is rebuilt from these four inputs.
savedColumn(column) == Col(column.name, column.type, column.primaryKey, column.required, FALSE)

saveTable(typed) ==
    /\ Budget
    /\ editingTable # NULL
    /\ IF editingTable = DETACHED
       THEN UNCHANGED currentSchema
       ELSE LET i == FindTable(currentSchema, editingTable)
            IN  currentSchema' = [currentSchema EXCEPT
                    !.tables[i].name = IF typed = "" THEN "unnamed_table" ELSE typed,
                    !.tables[i].columns = [k \in DOMAIN @ |-> savedColumn(@[k])]]
    /\ editingTable' = NULL
    /\ sqlOutput' = generateSQL(currentSchema')
    /\ nOps' = nOps + 1
    /\ UNCHANGED clock
    /\ DesignerFrame

deleteTable(tableId) ==
    /\ Budget
    /\ HasTable(currentSchema, tableId)
    /\ currentSchema' = [currentSchema EXCEPT
            !.tables = Filter(@, LAMBDA t : t.id # tableId),
            !.relationships = Filter(@, LAMBDA r : r.sourceTable # tableId /\ r.targetTable # tableId)]
    /\ editingTable' = IF editingTable = tableId THEN DETACHED ELSE editingTable
    /\ sqlOutput' = generateSQL(currentSchema')
    /\ nOps' = nOps + 1
    /\ UNCHANGED clock
    /\ DesignerFrame

\* JSON.parse(JSON.stringify(sample)) makes new table objects: a table being
\* edited is no longer part of the schema.
loadTemplate ==
    /\ Budget
    /\ currentSchema' = sampleEcommerceSchema
    /\ editingTable' = IF editingTable = NULL THEN NULL ELSE DETACHED
    /\ sqlOutput' = generateSQL(currentSchema')
    /\ nOps' = nOps + 1
    /\ UNCHANGED clock
    /\ DesignerFrame

importSchema(file) ==
    /\ Budget
    /\ currentSchema' = file
    /\ editingTable' = IF editingTable = NULL THEN NULL ELSE DETACHED
    /\ sqlOutput' = generateSQL(currentSchema')
    /\ nOps' = nOps + 1
    /\ UNCHANGED clock
    /\ DesignerFrame

closeModal ==
    /\ Budget
    /\ editingTable # NULL
    /\ editingTable' = NULL
    /\ nOps' = nOps + 1
    /\ UNCHANGED <<currentSchema, sqlOutput, clock>>
    /\ DesignerFrame

TableIdsOf(schema) == {schema.tables[i].id : i \in DOMAIN schema.tables}

DesignerInit ==
    /\ currentSchema = emptySchema
    /\ editingTable = NULL
    /\ sqlOutput = generateSQL(emptySchema)
    /\ clock = 1
    /\ nOps = 0

IdleSql ==
    /\ db = [tables |-> {}, columns |-> {}, relationships |-> {}]
    /\ httpLog = [made |-> FALSE]
    /\ clientCall = [made |-> FALSE]
    /\ compiled = [made |-> FALSE]

IdleValidation ==
    /\ req = [made |-> FALSE]
    /\ res = [made |-> FALSE]

\* No table request in flight, no point consumed.
IdleRequest == [pc |-> "idle", kind |-> "", name |-> "", tableId |-> "",
                existing |-> FALSE, status |-> 0, code |-> "", observed |-> {}]

IdleTables == tableReqs = [c \in 1..MaxClients |-> IdleRequest]

IdleRate ==
    /\ limiter = [k \in {"user-1", "ip-1", "ip-2"} |-> 0]
    /\ rateLog = [made |-> FALSE]

\* No socket has connected.
SocketIds == {"sock-1", "sock-2"}

NoEvent ==
    [event |-> "none", to |-> "", clientId |-> "", room |-> "",
     type |-> [t |-> "undefined", chars |-> <<>>, n |-> 0], message |-> ""]

IdleSockets ==
    sockets = [conn |-> [c \in SocketIds |-> "new"],
               rooms |-> [c \in SocketIds |-> {}],
               wire |-> {},
               inbox |-> [c \in SocketIds |-> NoEvent],
               departed |-> [c \in SocketIds |-> {}]]

\* The store as create() builds it (schemaStore.js 10-17), nothing in flight.
\* currentSchema: null
NoSchema == [id |-> NULL, tables |-> <<>>, relationships |-> <<>>]

\* What the claims read of the store's state.
Snapshot(schemas, current, isLoading, error) ==
    [schemas |-> schemas, currentSchema |-> current, isLoading |-> isLoading, error |-> error]

NoCall ==
    [made |-> FALSE, id |-> 0, action |-> "", tableId |-> "", outcome |-> "",
     message |-> "", rethrown |-> FALSE, undisturbed |-> TRUE,
     before |-> Snapshot(<<>>, NoSchema, FALSE, NULL),
     after |-> Snapshot(<<>>, NoSchema, FALSE, NULL)]

EmptyStore ==
    [schemas |-> <<>>, currentSchema |-> NoSchema, isLoading |-> FALSE, error |-> NULL,
     pending |-> {}, settled |-> NoCall, version |-> 0]

IdleStore == store = EmptyStore

IdleList ==
    /\ schemaRows = [schemas |-> {}, collaborators |-> {}, authTables |-> FALSE]
    /\ listLog = [made |-> FALSE]

IdleRest == IdleSockets /\ IdleStore /\ IdleList

InitDesigner == DesignerInit /\ IdleSql /\ IdleValidation /\ IdleTables /\ IdleRate /\ IdleRest

NextDesigner ==
    \/ newSchema
    \/ addTable
    \/ \E t \in TableIdsOf(currentSchema) : editTable(t)
    \/ addColumn
    \/ \E index \in 1..6 : removeColumn(index)
    \/ \E typed \in TypedNames : saveTable(typed)
    \/ \E t \in TableIdsOf(currentSchema) : deleteTable(t)
    \/ loadTemplate
    \/ \E file \in ImportFiles : importSchema(file)
    \/ closeModal

SpecDesigner == InitDesigner /\ [][NextDesigner]_vars

(***************************************************************************)
(* The database behind the routes: rows of tables, columns, relationships. *)
(* Every row carries its rowid, the order SQLite stores and scans it in.   *)
(***************************************************************************)
S1 == "11111111-1111-4111-8111-111111111111"
S2 == "22222222-2222-4222-8222-222222222222"

TableRow(id, schema_id, name, description, rowid) ==
    [id |-> id, schema_id |-> schema_id, name |-> name,
     description |-> description, rowid |-> rowid]

ColumnRow(id, table_id, name, data_type, length, pk, fk, unique, required, autoInc, order_index, rowid) ==
    [id |-> id, table_id |-> table_id, name |-> name, data_type |-> data_type,
     length |-> length, is_primary_key |-> pk, is_foreign_key |-> fk,
     is_unique |-> unique, is_required |-> required, is_auto_increment |-> autoInc,
     order_index |-> order_index, rowid |-> rowid]

RelationshipRow(id, schema_id, st, sc, tt, tc, on_delete, on_update, rowid) ==
    [id |-> id, schema_id |-> schema_id, source_table_id |-> st, source_column_id |-> sc,
     target_table_id |-> tt, target_column_id |-> tc,
     on_delete |-> on_delete, on_update |-> on_update, rowid |-> rowid]

\* Rows a schema S1 can hold; t_audit belongs to another schema.
CandidateTables ==
    { TableRow("t_users", S1, "users", "Application users", 1),
      TableRow("t_orders", S1, "orders", "", 2),
      TableRow("t_Users", S1, "Users", "Legacy users", 3) }

ForeignTables == { TableRow("t_audit", S2, "audit", "", 4) }

AllColumns ==
    { ColumnRow("c_u_id", "t_users", "id", "INTEGER", 0, 1, 0, 0, 1, 1, 0, 1),
      ColumnRow("c_u_email", "t_users", "email", "VARCHAR", 255, 0, 0, 1, 1, 0, 1, 2),
      ColumnRow("c_u_last", "t_users", "last_order_id", "INTEGER", 0, 0, 1, 0, 0, 0, 2, 3),
      ColumnRow("c_o_id", "t_orders", "id", "INTEGER", 0, 1, 0, 0, 1, 1, 0, 4),
      ColumnRow("c_o_user", "t_orders", "user_id", "INTEGER", 0, 0, 1, 0, 1, 0, 1, 5),
      ColumnRow("c_o_appr", "t_orders", "approved_by", "INTEGER", 0, 0, 1, 0, 0, 0, 1, 6),
      ColumnRow("c_U_id", "t_Users", "id", "INTEGER", 0, 1, 0, 0, 1, 1, 0, 7),
      ColumnRow("c_a_id", "t_audit", "id", "INTEGER", 0, 1, 0, 0, 1, 1, 0, 8) }

CandidateRelationships ==
    { RelationshipRow("r_user_orders", S1, "t_users", "c_u_id", "t_orders", "c_o_user",
                      "CASCADE", "CASCADE", 1),
      RelationshipRow("r_approver", S1, "t_users", "c_u_id", "t_orders", "c_o_appr",
                      "SET NULL", "CASCADE", 2),
      RelationshipRow("r_last_order", S1, "t_orders", "c_o_id", "t_users", "c_u_last",
                      "RESTRICT", "CASCADE", 3) }

\* The foreign keys of init.js: a column needs its table, a relationship
\* needs both of its tables and columns.
DbStates ==
    { [tables |-> ts \cup ForeignTables,
       columns |-> {c \in AllColumns : \E t \in ts \cup ForeignTables : t.id = c.table_id},
       relationships |-> rs] :
        ts \in SUBSET CandidateTables,
        rs \in SUBSET CandidateRelationships }

WellFormedDb(d) ==
    \A r \in d.relationships :
        /\ \E t \in d.tables : t.id = r.source_table_id
        /\ \E t \in d.tables : t.id = r.target_table_id
        /\ \E c \in d.columns : c.id = r.source_column_id
        /\ \E c \in d.columns : c.id = r.target_column_id

\* SQLite's BINARY collation on the names that occur: upper case sorts first.
Collation == << "Users", "approved_by", "audit", "email", "id", "last_order_id",
                "orders", "user_id", "users" >>

NameRank(name) == CHOOSE i \in DOMAIN Collation : Collation[i] = name

\* ORDER BY key: the rows least key first; rows of equal key come in rowid order.
RECURSIVE OrderBy(_, _)
OrderBy(rows, key) ==
    IF rows = {} THEN <<>>
    ELSE LET first == CHOOSE x \in rows : \A y \in rows \ {x} :
                          key[x] < key[y] \/ (key[x] = key[y] /\ x.rowid < y.rowid)
         IN  <<first>> \o OrderBy(rows \ {first}, key)

ByRowid(rows) == [x \in rows |-> 0]
ByName(rows) == [x \in rows |-> NameRank(x.name)]
ByOrderIndexName(rows) == [x \in rows |-> x.order_index * (Len(Collation) + 1) + NameRank(x.name)]

\* SELECT * FROM tables WHERE schema_id = ? ORDER BY name
selectTables(d, schemaId) ==
    LET rows == {t \in d.tables : t.schema_id = schemaId}
    IN  OrderBy(rows, ByName(rows))

\* SELECT c.* FROM columns c JOIN tables t ... ORDER BY c.table_id, c.order_index, c.name
\* (the rows are grouped by table_id right after, so only the order inside a table counts)
selectColumns(d, tableId) ==
    LET rows == {c \in d.columns :
                    /\ c.table_id = tableId
                    /\ \E t \in d.tables : t.id = c.table_id}
    IN  OrderBy(rows, ByOrderIndexName(rows))

\* SELECT r.*, names FROM relationships r JOIN tables st, columns sc, tables tt, columns tc
\* WHERE r.schema_id = ?   (no ORDER BY: the rows come as the table is scanned)
selectRelationships(d, schemaId) ==
    LET rows == {r \in d.relationships :
                    /\ r.schema_id = schemaId
                    /\ \E t \in d.tables : t.id = r.source_table_id
                    /\ \E t \in d.tables : t.id = r.target_table_id
                    /\ \E c \in d.columns : c.id = r.source_column_id
                    /\ \E c \in d.columns : c.id = r.target_column_id}
    IN  OrderBy(rows, ByRowid(rows))

TableNameOf(d, id) == (CHOOSE t \in d.tables : t.id = id).name
ColumnNameOf(d, id) == (CHOOSE c \in d.columns : c.id = id).name

\* Boolean(column.is_primary_key) on SQLite's 0 / 1
Boolean01(n) == n # 0

columnData(column) ==
    [name |-> column.name, dataType |-> column.data_type, length |-> column.length,
     isPrimaryKey |-> Boolean01(column.is_primary_key),
     isForeignKey |-> Boolean01(column.is_foreign_key),
     isUnique |-> Boolean01(column.is_unique),
     isRequired |-> Boolean01(column.is_required),
     isAutoIncrement |-> Boolean01(column.is_auto_increment)]

tablesData(d, schemaId) ==
    LET tables == selectTables(d, schemaId)
    IN  [i \in DOMAIN tables |->
            [name |-> tables[i].name,
             description |-> tables[i].description,
             columns |-> LET cols == selectColumns(d, tables[i].id)
                         IN  [k \in DOMAIN cols |-> columnData(cols[k])]]]

relationshipsData(d, schemaId) ==
    LET rels == selectRelationships(d, schemaId)
    IN  [i \in DOMAIN rels |->
            [sourceTableName |-> TableNameOf(d, rels[i].source_table_id),
             sourceColumnName |-> ColumnNameOf(d, rels[i].source_column_id),
             targetTableName |-> TableNameOf(d, rels[i].target_table_id),
             targetColumnName |-> ColumnNameOf(d, rels[i].target_column_id),
             onDelete |-> rels[i].on_delete,
             onUpdate |-> rels[i].on_update]]

(***************************************************************************)
(* SQLGenerator (utils/sqlGenerator), which the route requires: validate,  *)
(* then emit the DROP, CREATE TABLE, CONSTRAINT and INDEX phases.          *)
(***************************************************************************)
KnownDialects == {"mysql", "postgresql", "sqlite", "mssql"}

DataKinds ==
    { "INTEGER", "BIGINT", "SMALLINT", "TINYINT", "VARCHAR", "CHAR", "TEXT", "LONGTEXT",
      "DECIMAL", "NUMERIC", "FLOAT", "DOUBLE", "REAL", "DATE", "TIME", "DATETIME",
      "TIMESTAMP", "BOOLEAN", "BIT", "JSON", "JSONB", "BLOB", "UUID" }

IntegerKinds == {"INTEGER", "BIGINT", "SMALLINT", "TINYINT"}

\* String.prototype.toLowerCase on the names that occur.
Lower(name) ==
    CASE name = "Users" -> "users"
      [] name = "Customer" -> "customer"
      [] name = "A" -> "a"
      [] name = "B" -> "b"
      [] OTHER -> name

Issue(kind, entity) == [kind |-> kind, entity |-> entity]

ColumnsNamed(tables, tableName, columnName) ==
    { c \in UNION { Range(tables[t].columns) : t \in {u \in DOMAIN tables : tables[u].name = tableName} } :
        c.name = columnName }

\* SchemaValidator.validate: every issue of the schema, none left out.
validateSchema(tables, relationships) ==
    LET dupTables == SelectIdx(tables, LAMBDA i :
            \E j \in 1..(i - 1) : Lower(tables[j].name) = Lower(tables[i].name))
        tableIssues(t) ==
            LET cols == tables[t].columns
                dup == SelectIdx(cols, LAMBDA i :
                    \E j \in 1..(i - 1) : Lower(cols[j].name) = Lower(cols[i].name))
                unknown == SelectIdx(cols, LAMBDA i : cols[i].dataType \notin DataKinds)
                autoInc == SelectIdx(cols, LAMBDA i :
                    cols[i].isAutoIncrement /\ cols[i].dataType \notin IntegerKinds)
            IN  [k \in DOMAIN dup |-> Issue("DuplicateColumnName", <<tables[t].name, cols[dup[k]].name>>)]
                \o [k \in DOMAIN unknown |-> Issue("UnknownDataType", <<tables[t].name, cols[unknown[k]].name>>)]
                \o [k \in DOMAIN autoInc |-> Issue("InvalidAutoIncrement", <<tables[t].name, cols[autoInc[k]].name>>)]
        source(r) == ColumnsNamed(tables, relationships[r].sourceTableName, relationships[r].sourceColumnName)
        target(r) == ColumnsNamed(tables, relationships[r].targetTableName, relationships[r].targetColumnName)
        dangling == SelectIdx(relationships, LAMBDA r : source(r) = {} \/ target(r) = {})
        mismatch == SelectIdx(relationships, LAMBDA r :
            /\ source(r) # {} /\ target(r) # {}
            /\ \E a \in source(r), b \in target(r) : a.dataType # b.dataType)
    IN  [k \in DOMAIN dupTables |-> Issue("DuplicateTableName", tables[dupTables[k]].name)]
        \o Flatten([t \in DOMAIN tables |-> tableIssues(t)])
        \o [k \in DOMAIN dangling |-> Issue("DanglingColumnReference", dangling[k])]
        \o [k \in DOMAIN mismatch |-> Issue("IncompatibleTypePair", mismatch[k])]

\* fk_<targetTable>_<sourceTable>, the second and later relationships of one
\* (target, source) pair taking a numeric suffix.
constraintName(relationships, r) ==
    LET base == "fk_" \o relationships[r].targetTableName \o "_" \o relationships[r].sourceTableName
        nth == 1 + Cardinality({ k \in 1..(r - 1) :
                    /\ relationships[k].targetTableName = relationships[r].targetTableName
                    /\ relationships[k].sourceTableName = relationships[r].sourceTableName })
    IN  IF nth = 1 THEN base ELSE base \o "_" \o ToString(nth)

\* DependencyAnalyzer: a table depends on the tables its foreign keys reference.
References(relationships, holder) ==
    { relationships[r].sourceTableName :
        r \in {k \in DOMAIN relationships : relationships[k].targetTableName = holder} } \ {holder}

\* Referenced tables first, in the stable order of the input; the input order
\* itself when the graph has a cycle.
RECURSIVE topological(_, _, _)
topological(names, relationships, placed) ==
    LET left == SelectSeq(names, LAMBDA n : n \notin Range(placed))
        ready == SelectSeq(left, LAMBDA n : References(relationships, n) \cap Range(left) = {})
    IN  IF left = <<>> THEN placed
        ELSE IF ready = <<>> THEN placed \o left
        ELSE topological(names, relationships, Append(placed, ready[1]))

Reverse(s) == [i \in DOMAIN s |-> s[Len(s) + 1 - i]]

\* A DROP phase that names every constraint fk_<target>_<source>, unsuffixed.
dropPhase_unsuffixed(tables, relationships, options) ==
    LET names == [i \in DOMAIN tables |-> tables[i].name]
        order == Reverse(topological(names, relationships, <<>>))
    IN  (IF options.includeConstraints
         THEN [r \in DOMAIN relationships |->
                 [kind |-> "DROP CONSTRAINT", table |-> relationships[r].targetTableName,
                  constraint |-> "fk_" \o relationships[r].targetTableName \o "_"
                                       \o relationships[r].sourceTableName]]
         ELSE <<>>)
        \o [i \in DOMAIN order |-> [kind |-> "DROP TABLE", table |-> order[i], constraint |-> ""]]

dropPhase(tables, relationships, options) ==
    LET names == [i \in DOMAIN tables |-> tables[i].name]
        order == Reverse(topological(names, relationships, <<>>))
    IN  (IF options.includeConstraints
         THEN [r \in DOMAIN relationships |->
                 [kind |-> "DROP CONSTRAINT", table |-> relationships[r].targetTableName,
                  constraint |-> constraintName(relationships, r)]]
         ELSE <<>>)
        \o [i \in DOMAIN order |-> [kind |-> "DROP TABLE", table |-> order[i], constraint |-> ""]]

createPhase(tables, options) ==
    Flatten([i \in DOMAIN tables |->
        (IF options.includeComments /\ tables[i].description # ""
         THEN <<[kind |-> "COMMENT", table |-> tables[i].name, constraint |-> "",
                 comment |-> tables[i].description]>>
         ELSE <<>>)
        \o <<[kind |-> "CREATE TABLE", table |-> tables[i].name, constraint |-> "",
              columns |-> tables[i].columns]>>])

constraintPhase(relationships) ==
    [r \in DOMAIN relationships |->
        [kind |-> "ALTER TABLE", table |-> relationships[r].targetTableName,
         constraint |-> constraintName(relationships, r),
         column |-> relationships[r].targetColumnName,
         refTable |-> relationships[r].sourceTableName,
         refColumn |-> relationships[r].sourceColumnName,
         onDelete |-> relationships[r].onDelete,
         onUpdate |-> relationships[r].onUpdate]]

\* One index per referencing column that no PRIMARY KEY or UNIQUE covers.
indexPhase(tables, relationships) ==
    LET first == SelectIdx(relationships, LAMBDA r :
            /\ ~\E k \in 1..(r - 1) :
                    /\ relationships[k].targetTableName = relationships[r].targetTableName
                    /\ relationships[k].targetColumnName = relationships[r].targetColumnName
            /\ \A c \in ColumnsNamed(tables, relationships[r].targetTableName,
                                     relationships[r].targetColumnName) :
                    ~c.isPrimaryKey /\ ~c.isUnique)
    IN  [k \in DOMAIN first |->
            [kind |-> "CREATE INDEX", table |-> relationships[first[k]].targetTableName,
             constraint |-> "", column |-> relationships[first[k]].targetColumnName]]

Thrown(error, issues) == [ok |-> FALSE, error |-> error, issues |-> issues, sql |-> <<>>]
Returned(sql) == [ok |-> TRUE, error |-> "", issues |-> <<>>, sql |-> sql]

\* A generator that emits the CONSTRAINT phase whatever the options say.
emitPhases_always(tables, relationships, options) ==
    (IF options.includeDropStatements THEN dropPhase(tables, relationships, options) ELSE <<>>)
    \o createPhase(tables, options)
    \o constraintPhase(relationships)
    \o (IF options.includeIndexes THEN indexPhase(tables, relationships) ELSE <<>>)

emitPhases(tables, relationships, options) ==
    (IF options.includeDropStatements THEN dropPhase(tables, relationships, options) ELSE <<>>)
    \o createPhase(tables, options)
    \o (IF options.includeConstraints THEN constraintPhase(relationships) ELSE <<>>)
    \o (IF options.includeIndexes THEN indexPhase(tables, relationships) ELSE <<>>)

\* new SQLGenerator(dialect).generateSchema(tables, relationships, options)
generateSchema(dialect, tables, relationships, options) ==
    IF dialect \notin KnownDialects THEN Thrown("UnsupportedDialect", <<>>)
    ELSE IF validateSchema(tables, relationships) # <<>>
         THEN Thrown("ValidationError", validateSchema(tables, relationships))
    ELSE Returned(emitPhases(tables, relationships, options))

(***************************************************************************)
(* GET /:schemaId/sql and apiClient.generateSQL.  A JavaScript boolean is  *)
(* written "JS:true" / "JS:false" and undefined "JS:undefined", so that    *)
(* the string 'true' of a query string stays apart from the boolean true.  *)
(***************************************************************************)
UNDEF == "JS:undefined"
JSTRUE == "JS:true"
JSFALSE == "JS:false"

NotAUuid == "not-a-uuid"
Uuids == {S1, S2}

\* Joi.string().uuid() and the client's uuidRegex on the ids that occur.
IsUuid(value) == value \in Uuids

NoExchange == [made |-> FALSE]

\* const { dialect = 'mysql', ... } = req.query: the default replaces undefined only.
Default(value, default) == IF value = UNDEF THEN default ELSE value

\* A handler that reads the flags by truthiness instead of === 'true'.
routeOptions_truthy(query) ==
    [includeDropStatements |-> Default(query.includeDropStatements, JSFALSE) \notin {JSFALSE, ""},
     includeComments |-> Default(query.includeComments, JSTRUE) \notin {JSFALSE, ""},
     includeIndexes |-> TRUE,
     includeConstraints |-> TRUE]

\* The options object the handler builds from req.query.
routeOptions(query) ==
    [includeDropStatements |-> Default(query.includeDropStatements, JSFALSE) = "true",
     includeComments |-> Default(query.includeComments, JSTRUE) = "true",
     includeIndexes |-> TRUE,
     includeConstraints |-> TRUE]

\* The handler behind authenticate, validateUUID('schemaId'), authorizeSchemaAccess.
getSchemaSql(d, schemaId, query) ==
    IF ~IsUuid(schemaId)
    THEN [made |-> TRUE, schemaId |-> schemaId, query |-> query,
          status |-> 400, code |-> "INVALID_UUID", hasSql |-> FALSE, sql |-> <<>>,
          dialect |-> UNDEF, options |-> routeOptions(query)]
    ELSE LET dialect == Default(query.dialect, "mysql")
             out == generateSchema(dialect, tablesData(d, schemaId),
                                   relationshipsData(d, schemaId), routeOptions(query))
         IN  IF out.ok
             THEN [made |-> TRUE, schemaId |-> schemaId, query |-> query,
                   status |-> 200, code |-> "", hasSql |-> TRUE, sql |-> out.sql,
                   dialect |-> dialect, options |-> routeOptions(query)]
             ELSE [made |-> TRUE, schemaId |-> schemaId, query |-> query,
                   status |-> 500, code |-> "INTERNAL_SERVER_ERROR", hasSql |-> FALSE,
                   sql |-> <<>>, dialect |-> dialect, options |-> routeOptions(query)]

\* Boolean(x) of JavaScript.
Boolean(value) ==
    IF value \in {JSFALSE, UNDEF, ""} THEN JSFALSE ELSE JSTRUE

allowedDialects == {"mysql", "postgresql", "sqlite", "mssql"}

validateSQLOptions(options) ==
    [dialect |-> IF options.dialect \notin {UNDEF, ""} /\ options.dialect \in allowedDialects
                 THEN options.dialect ELSE UNDEF,
     includeDropStatements |-> IF options.includeDropStatements # UNDEF
                               THEN Boolean(options.includeDropStatements) ELSE UNDEF,
     includeComments |-> IF options.includeComments # UNDEF
                         THEN Boolean(options.includeComments) ELSE UNDEF]

\* encodeURIComponent on the strings that occur: letters and digits stay.
encodeURIComponent(value) ==
    CASE value = "my sql" -> "my%20sql"
      [] OTHER -> value

\* Strings are encoded; booleans and undefined pass as they are.
sanitizeParams(params) ==
    [dialect |-> IF params.dialect = UNDEF THEN UNDEF ELSE encodeURIComponent(params.dialect),
     includeDropStatements |-> params.includeDropStatements,
     includeComments |-> params.includeComments]

\* The query string as Express parses it: a boolean arrives as 'true' / 'false',
\* an undefined parameter is left out.
Serialize(value) ==
    CASE value = JSTRUE -> "true"
      [] value = JSFALSE -> "false"
      [] OTHER -> value

queryOf(params) ==
    [dialect |-> Serialize(params.dialect),
     includeDropStatements |-> Serialize(params.includeDropStatements),
     includeComments |-> Serialize(params.includeComments)]

\* The response interceptor and request(): response.data, or the Error thrown.
clientOutcome(exchange) ==
    IF exchange.status = 200 THEN [ok |-> TRUE, sql |-> exchange.sql, error |-> ""]
    ELSE IF exchange.status = 429 THEN [ok |-> FALSE, sql |-> <<>>, error |-> "Too many requests"]
    ELSE IF exchange.status >= 500
         THEN [ok |-> FALSE, sql |-> <<>>, error |-> "Server error - please try again later"]
    ELSE [ok |-> FALSE, sql |-> <<>>, error |-> "Invalid schemaId format"]

\* ---- the requests tried ----
QueryDialects == {UNDEF, "mysql", "postgresql", "oracle"}
QueryFlags == {UNDEF, "true", "false"}
Queries ==
    [dialect : QueryDialects, includeDropStatements : QueryFlags,
     includeComments : QueryFlags]

ClientOptions ==
    [dialect : QueryDialects, includeDropStatements : {UNDEF, JSTRUE, JSFALSE, "false"},
     includeComments : {UNDEF, JSTRUE}]

GeneratorOptions ==
    [includeDropStatements : BOOLEAN, includeComments : BOOLEAN,
     includeIndexes : BOOLEAN, includeConstraints : BOOLEAN]

\* The handler keeps nothing between requests; a behaviour serves MaxRequests of them.
RequestBudget == nOps < MaxRequests

SqlFrame ==
    /\ nOps' = nOps + 1
    /\ UNCHANGED <<db, currentSchema, editingTable, sqlOutput, clock, validationVars,
                   tablesVars, rateVars, socketVars, storeVars, listVars>>

\* A handler that, besides answering, deletes the relationships it has read.
Request_writes(schemaId, query) ==
    /\ RequestBudget
    /\ httpLog' = getSchemaSql(db, schemaId, query)
    /\ clientCall' = NoExchange
    /\ compiled' = NoExchange
    /\ db' = [db EXCEPT !.relationships = {r \in @ : r.schema_id # schemaId}]
    /\ nOps' = nOps + 1
    /\ UNCHANGED <<currentSchema, editingTable, sqlOutput, clock, validationVars,
                   tablesVars, rateVars, socketVars, storeVars, listVars>>

\* An HTTP caller sends GET /schemas/:schemaId/sql?...
Request(schemaId, query) ==
    /\ RequestBudget
    /\ httpLog' = getSchemaSql(db, schemaId, query)
    /\ clientCall' = NoExchange
    /\ compiled' = NoExchange
    /\ SqlFrame

\* apiClient.generateSQL(schemaId, options)
ClientGenerateSQL(schemaId, options) ==
    /\ RequestBudget
    /\ IF ~IsUuid(schemaId)
       THEN /\ httpLog' = NoExchange
            /\ clientCall' = [made |-> TRUE, schemaId |-> schemaId, options |-> options,
                              sent |-> FALSE,
                              outcome |-> [ok |-> FALSE, sql |-> <<>>,
                                           error |-> "Invalid Schema ID format"]]
       ELSE LET exchange == getSchemaSql(db, schemaId,
                                queryOf(sanitizeParams(validateSQLOptions(options))))
            IN  /\ httpLog' = exchange
                /\ clientCall' = [made |-> TRUE, schemaId |-> schemaId, options |-> options,
                                  sent |-> TRUE, outcome |-> clientOutcome(exchange)]
    /\ compiled' = NoExchange
    /\ SqlFrame

\* new SQLGenerator(dialect).generateSchema(...) on the stored schema, any options.
Compile(dialect, options) ==
    /\ RequestBudget
    /\ compiled' = [made |-> TRUE, dialect |-> dialect, options |-> options,
                    tables |-> tablesData(db, S1),
                    relationships |-> relationshipsData(db, S1),
                    result |-> generateSchema(dialect, tablesData(db, S1),
                                              relationshipsData(db, S1), options)]
    /\ httpLog' = NoExchange
    /\ clientCall' = NoExchange
    /\ SqlFrame

InitSql ==
    /\ db \in {d \in DbStates : WellFormedDb(d)}
    /\ httpLog = NoExchange
    /\ clientCall = NoExchange
    /\ compiled = NoExchange
    /\ DesignerInit
    /\ IdleValidation
    /\ IdleTables
    /\ IdleRate
    /\ IdleRest

NextSql ==
    \/ \E schemaId \in {S1, NotAUuid}, query \in Queries : Request(schemaId, query)
    \/ \E schemaId \in {S1, NotAUuid}, options \in ClientOptions :
            ClientGenerateSQL(schemaId, options)
    \/ \E dialect \in {"mysql", "sqlite", "oracle"}, options \in GeneratorOptions :
            Compile(dialect, options)

SpecSql == InitSql /\ [][NextSql]_vars

(***************************************************************************)
(* The validation middleware: validate(schemaName, source), validateUUID,  *)
(* validateUUIDs.                                                          *)
(***************************************************************************)
\* schemas.sqlExport, its keys in the order Joi visits them.
sqlExportKeys == <<"dialect", "includeDropStatements", "includeComments", "includeData">>

sqlExportDefault ==
    [dialect |-> "mysql", includeDropStatements |-> JSFALSE,
     includeComments |-> JSTRUE, includeData |-> JSFALSE]

\* Joi.string().valid(...) and Joi.boolean() under convert: true.
sqlExportError(key, value) ==
    /\ value # UNDEF
    /\ IF key = "dialect" THEN value \notin allowedDialects
                          ELSE value \notin {"true", "false", JSTRUE, JSFALSE}

sqlExportValue(key, value) ==
    IF value = UNDEF THEN sqlExportDefault[key]
    ELSE IF key = "dialect" THEN value
    ELSE IF value \in {"true", JSTRUE} THEN JSTRUE ELSE JSFALSE

Passed(value) == [made |-> TRUE, next |-> TRUE, status |-> 0, code |-> "", details |-> <<>>, value |-> value]
Rejected(status, code, details, value) ==
    [made |-> TRUE, next |-> FALSE, status |-> status, code |-> code, details |-> details, value |-> value]

\* schema.validate(data, {abortEarly: true}): Joi stops at the first error.
validate_abortEarly(data) ==
    LET bad == SelectSeq(sqlExportKeys, LAMBDA k : sqlExportError(k, data[k]))
    IN  IF bad # <<>>
        THEN Rejected(400, "VALIDATION_ERROR", <<[field |-> bad[1], value |-> data[bad[1]]]>>, data)
        ELSE Passed([k \in Range(sqlExportKeys) |-> sqlExportValue(k, data[k])])

\* validate('sqlExport', 'query') on req.query: abortEarly false, stripUnknown, convert.
validate(data) ==
    LET bad == SelectSeq(sqlExportKeys, LAMBDA k : sqlExportError(k, data[k]))
    IN  IF bad # <<>>
        THEN Rejected(400, "VALIDATION_ERROR",
                      [i \in DOMAIN bad |-> [field |-> bad[i], value |-> data[bad[i]]]], data)
        ELSE Passed([k \in Range(sqlExportKeys) |-> sqlExportValue(k, data[k])])

\* validateUUID(paramName)
validateUUID(paramName, params) ==
    IF ~IsUuid(params[paramName])
    THEN Rejected(400, "INVALID_UUID", <<>>, params)
    ELSE Passed(params)

\* validateUUIDs(...paramNames)
validateUUIDs(paramNames, params) ==
    LET bad == SelectSeq(paramNames, LAMBDA n : ~IsUuid(params[n]))
        errors == [i \in DOMAIN bad |-> "Invalid " \o bad[i] \o " format"]
    IN  IF Len(errors) > 0
        THEN Rejected(400, "INVALID_PARAMETERS", errors, params)
        ELSE Passed(params)

\* schemas.column: the keys that matter for auto-increment, in Joi's order.
columnKeys == <<"name", "dataType", "isPrimaryKey", "isAutoIncrement">>

\* /^[a-zA-Z][a-zA-Z0-9_]*$/ on the names that occur.
ColumnNamePattern == {"id", "email"}

columnError(key, value) ==
    CASE key = "name" -> value = UNDEF \/ value \notin ColumnNamePattern
      [] key = "dataType" -> value = UNDEF \/ value \notin DataKinds
      [] OTHER -> value # UNDEF /\ value \notin {"true", "false", JSTRUE, JSFALSE}

columnValue(key, value) ==
    IF key \in {"name", "dataType"} THEN value
    ELSE IF value \in {"true", JSTRUE} THEN JSTRUE ELSE JSFALSE

\* validate('column') on req.body
validateColumn(data) ==
    LET bad == SelectSeq(columnKeys, LAMBDA k : columnError(k, data[k]))
    IN  IF bad # <<>>
        THEN Rejected(400, "VALIDATION_ERROR",
                      [i \in DOMAIN bad |-> [field |-> bad[i], value |-> data[bad[i]]]], data)
        ELSE Passed([k \in Range(columnKeys) |-> columnValue(k, data[k])])

\* The schemas the authenticated user owns or collaborates on.
AccessibleSchemas == {S1}

\* The handler of POST /analyze: the schema is looked up by req.body.schemaId.
analyzeHandler(body) ==
    IF body.schemaId \in AccessibleSchemas
    THEN [made |-> TRUE, next |-> TRUE, status |-> 200, code |-> "", details |-> <<>>,
          value |-> "analysis"]
    ELSE [made |-> TRUE, next |-> TRUE, status |-> 404, code |-> "RESOURCE_NOT_FOUND",
          details |-> <<>>, value |-> "none"]

\* router.post('/analyze', authenticate, validateUUID('schemaId'), handler):
\* the path has no :schemaId, so the middleware reads req.params of that path.
postAnalyze(params, body) ==
    IF validateUUID("schemaId", params).next
    THEN analyzeHandler(body)
    ELSE [validateUUID("schemaId", params) EXCEPT !.value = "none"]

\* req.params of a path without parameters.
NoParams == [schemaId |-> UNDEF]

\* ---- the requests tried ----
ExportQueries ==
    [dialect : {UNDEF, "mysql", "oracle"},
     includeDropStatements : {UNDEF, "true", "yes"},
     includeComments : {UNDEF, "false", "1"},
     includeData : {UNDEF, "true", "maybe"},
     format : {UNDEF, "zip"}]

TableParams == [schemaId : {S1, NotAUuid, UNDEF}, tableId : {S2, NotAUuid, UNDEF}]

ValidationFrame == UNCHANGED <<designerVars, sqlVars, tablesVars, rateVars, socketVars, storeVars, listVars>>

RunValidate(query) ==
    /\ req' = [made |-> TRUE, middleware |-> "validate", query |-> query]
    /\ res' = validate(query)
    /\ ValidationFrame

RunValidateUUID(params) ==
    /\ req' = [made |-> TRUE, middleware |-> "validateUUID", params |-> params]
    /\ res' = validateUUID("schemaId", params)
    /\ ValidationFrame

RunValidateUUIDs(params) ==
    /\ req' = [made |-> TRUE, middleware |-> "validateUUIDs", params |-> params]
    /\ res' = validateUUIDs(<<"schemaId", "tableId">>, params)
    /\ ValidationFrame

ColumnBodies ==
    [name : {"id", "1st"}, dataType : {UNDEF, "INTEGER", "VARCHAR", "MONEY"},
     isPrimaryKey : {UNDEF, JSTRUE}, isAutoIncrement : {UNDEF, JSTRUE, JSFALSE, "yes"}]

AnalyzeBodies == [schemaId : {S1, S2, NotAUuid, UNDEF}]

RunValidateColumn(body) ==
    /\ req' = [made |-> TRUE, middleware |-> "validateColumn", body |-> body]
    /\ res' = validateColumn(body)
    /\ ValidationFrame

\* apiClient.analyzeSchema(schemaId) posts { schemaId } to /ai/analyze.
RunAnalyze(body) ==
    /\ req' = [made |-> TRUE, middleware |-> "analyze", params |-> NoParams, body |-> body]
    /\ res' = postAnalyze(NoParams, body)
    /\ ValidationFrame

InitValidation == DesignerInit /\ IdleSql /\ IdleValidation /\ IdleTables /\ IdleRate /\ IdleRest

NextValidation ==
    \/ \E query \in ExportQueries : RunValidate(query)
    \/ \E params \in TableParams : RunValidateUUID(params)
    \/ \E params \in TableParams : RunValidateUUIDs(params)
    \/ \E body \in ColumnBodies : RunValidateColumn(body)
    \/ \E body \in AnalyzeBodies : RunAnalyze(body)

SpecValidation == InitValidation /\ [][NextValidation]_vars

(***************************************************************************)
(* createRateLimitMiddleware(limiter, identifier).                         *)
(***************************************************************************)
\* req.user?.id || req.ip
RateKeys == {"user-1", "ip-1", "ip-2"}

\* limiter.consume(key): resolves while the key has points left in the window,
\* rejects afterwards; every call is counted.
consumeAccepts(consumed) == consumed < RateLimitPoints

\* What the catch block leaves behind.  `key` is a const of the try block and
\* is not in scope in the catch block: building the console.log message throws
\* a ReferenceError before res.set / res.status(429) run.  The async middleware
\* then rejects: Express 4 drops the rejection and the request gets no response,
\* Express 5 hands it to the error handler, which answers 500.
CatchOutcomes ==
    { [status |-> 0, code |-> "", retryAfter |-> FALSE, responses |-> 0],
      [status |-> 500, code |-> "INTERNAL_SERVER_ERROR", retryAfter |-> FALSE, responses |-> 1] }

rateLimitMiddleware(key) ==
    /\ limiter' = [limiter EXCEPT ![key] = IF @ <= RateLimitPoints THEN @ + 1 ELSE @]
    /\ IF consumeAccepts(limiter[key])
       THEN rateLog' = [made |-> TRUE, key |-> key, accepted |-> TRUE, next |-> TRUE,
                        status |-> 0, code |-> "", retryAfter |-> FALSE, responses |-> 0]
       ELSE \E out \in CatchOutcomes :
                rateLog' = [made |-> TRUE, key |-> key, accepted |-> FALSE, next |-> FALSE,
                            status |-> out.status, code |-> out.code,
                            retryAfter |-> out.retryAfter, responses |-> out.responses]
    /\ UNCHANGED <<designerVars, sqlVars, validationVars, tablesVars, socketVars, storeVars, listVars>>

\* duration seconds have passed: the key's record expires.
windowExpires(key) ==
    /\ limiter[key] > 0
    /\ limiter' = [limiter EXCEPT ![key] = 0]
    /\ UNCHANGED <<rateLog, designerVars, sqlVars, validationVars, tablesVars, socketVars, storeVars, listVars>>

InitRateLimit == DesignerInit /\ IdleSql /\ IdleValidation /\ IdleTables /\ IdleRate /\ IdleRest

NextRateLimit ==
    \/ \E key \in RateKeys : rateLimitMiddleware(key)
    \/ \E key \in RateKeys : windowExpires(key)

SpecRateLimit == InitRateLimit /\ [][NextRateLimit]_vars

(***************************************************************************)
(* POST /:schemaId/tables and PUT /:schemaId/tables/:tableId on schema S1. *)
(* Every await of a handler is a point where another request's handler can *)
(* run, so a handler is one action per database statement that matters.    *)
(* authenticate, validateUUID(s) and authorizeSchemaAccess('editor') let   *)
(* the requests through: the caller is an editor of S1.                    *)
(***************************************************************************)
Clients == 1..MaxClients

\* Bodies that pass validate('table'): names matching /^[a-zA-Z][a-zA-Z0-9_]*$/.
TableNames == {"users", "Users", "orders"}

\* uuidv4(): an id no row has yet; the n-th request draws the n-th id.
NewTableIds == << "t_new1", "t_new2", "t_new3", "t_new4", "t_new5" >>
NewColumnIds == << "c_new1", "c_new2", "c_new3", "c_new4", "c_new5" >>

NotATable == "t_missing"

NextRowid(rows) ==
    IF rows = {} THEN 1
    ELSE 1 + (CHOOSE m \in {r.rowid : r \in rows} : \A r \in rows : r.rowid <= m)

\* SELECT id FROM tables WHERE schema_id = ? AND name = ?  (BINARY collation)
existingTable(schemaId, name) ==
    \E t \in db.tables : t.schema_id = schemaId /\ t.name = name

\* UNIQUE(schema_id, name) of init.js, as SQLite checks it for a row that is
\* inserted or updated: another row with the same schema and the same bytes.
uniqueViolated(id, schemaId, name) ==
    \E t \in db.tables : t.id # id /\ t.schema_id = schemaId /\ t.name = name

Respond(c, status, code) ==
    [tableReqs EXCEPT ![c].pc = "done", ![c].status = status, ![c].code = code]

TableBudget == nOps < MaxTableRequests

TablesFrame ==
    UNCHANGED <<currentSchema, editingTable, sqlOutput, clock,
                httpLog, clientCall, compiled, validationVars, rateVars, socketVars, storeVars, listVars>>

\* The handler up to its first query: 409 when the name is found.
postTable(c, name) ==
    /\ TableBudget
    /\ tableReqs[c].pc = "idle"
    /\ nOps' = nOps + 1
    /\ LET tableId == NewTableIds[nOps + 1]
           found == existingTable(S1, name)
           started == [tableReqs EXCEPT ![c] =
                          [pc |-> "insertTable", kind |-> "create", name |-> name,
                           tableId |-> tableId, existing |-> found,
                           status |-> 0, code |-> "", observed |-> {}]]
       IN  tableReqs' = IF found
                        THEN [started EXCEPT ![c].pc = "done", ![c].status = 409,
                                             ![c].code = "DUPLICATE_RESOURCE"]
                        ELSE started
    /\ UNCHANGED db
    /\ TablesFrame

\* INSERT INTO tables: a constraint failure is thrown and caught as 500.
postTable_insertTable(c) ==
    /\ tableReqs[c].pc = "insertTable"
    /\ LET r == tableReqs[c]
       IN  IF uniqueViolated(r.tableId, S1, r.name)
           THEN /\ tableReqs' = Respond(c, 500, "INTERNAL_SERVER_ERROR")
                /\ UNCHANGED db
           ELSE /\ db' = [db EXCEPT !.tables =
                             @ \cup {TableRow(r.tableId, S1, r.name, "", NextRowid(@))}]
                /\ tableReqs' = [tableReqs EXCEPT ![c].pc = "insertColumn"]
    /\ UNCHANGED nOps
    /\ TablesFrame

\* INSERT INTO columns (the default id column), the schema's timestamp, the
\* two reads of the new rows, then 201.
postTable_insertColumn(c) ==
    /\ tableReqs[c].pc = "insertColumn"
    /\ LET r == tableReqs[c]
           columnId == CHOOSE id \in {NewColumnIds[i] : i \in DOMAIN NewColumnIds} :
                           \A col \in db.columns : col.id # id
       IN  db' = [db EXCEPT !.columns =
                     @ \cup {ColumnRow(columnId, r.tableId, "id", "INTEGER", 0,
                                       1, 0, 0, 1, 1, 0, NextRowid(@))}]
    /\ tableReqs' = Respond(c, 201, "")
    /\ UNCHANGED nOps
    /\ TablesFrame

\* The update handler up to its first query.  The body carries a name or
\* nothing at all.
putTable(c, tableId, name) ==
    /\ TableBudget
    /\ tableReqs[c].pc = "idle"
    /\ nOps' = nOps + 1
    /\ LET table == \E t \in db.tables : t.id = tableId /\ t.schema_id = S1
           started == [tableReqs EXCEPT ![c] =
                          [pc |-> "update", kind |-> "update", name |-> name,
                           tableId |-> tableId, existing |-> table,
                           status |-> 0, code |-> "", observed |-> {}]]
       IN  tableReqs' =
             IF ~table
             THEN [started EXCEPT ![c].pc = "done", ![c].status = 404,
                                  ![c].code = "RESOURCE_NOT_FOUND"]
             ELSE IF name = UNDEF
             THEN [started EXCEPT ![c].pc = "done", ![c].status = 400,
                                  ![c].code = "VALIDATION_ERROR"]
             ELSE started
    /\ UNCHANGED db
    /\ TablesFrame

\* UPDATE tables SET name = ?, updated_at = ? WHERE id = ?
putTable_update(c) ==
    /\ tableReqs[c].pc = "update"
    /\ LET r == tableReqs[c]
       IN  IF uniqueViolated(r.tableId, S1, r.name)
           THEN /\ tableReqs' = Respond(c, 500, "INTERNAL_SERVER_ERROR")
                /\ UNCHANGED db
           ELSE /\ db' = [db EXCEPT !.tables =
                             {IF t.id = r.tableId THEN [t EXCEPT !.name = r.name] ELSE t
                                : t \in @}]
                /\ tableReqs' = Respond(c, 200, "")
    /\ UNCHANGED nOps
    /\ TablesFrame

\* GET /:schemaId up to its tables query.  The schema row of S1 exists.
getSchema(c) ==
    /\ TableBudget
    /\ tableReqs[c].pc = "idle"
    /\ nOps' = nOps + 1
    /\ LET tables == {t \in db.tables : t.schema_id = S1}
       IN  tableReqs' = [tableReqs EXCEPT ![c] =
                            [pc |-> "readColumns", kind |-> "read", name |-> "",
                             tableId |-> "", existing |-> TRUE, status |-> 0, code |-> "",
                             observed |-> {[id |-> t.id, name |-> t.name, columns |-> {}]
                                             : t \in tables}]]
    /\ UNCHANGED db
    /\ TablesFrame

\* The columns query, tableColumnsMap[table.id] || [], and the response.
getSchema_columns(c) ==
    /\ tableReqs[c].pc = "readColumns"
    /\ LET columns == {col \in db.columns :
                          \E t \in db.tables : t.id = col.table_id /\ t.schema_id = S1}
           columnsOf(id) ==
               {[name |-> col.name, dataType |-> col.data_type,
                 isPrimaryKey |-> col.is_primary_key = 1,
                 isRequired |-> col.is_required = 1,
                 isAutoIncrement |-> col.is_auto_increment = 1,
                 orderIndex |-> col.order_index] : col \in {k \in columns : k.table_id = id}}
       IN  tableReqs' = [tableReqs EXCEPT
                            ![c].pc = "done", ![c].status = 200,
                            ![c].observed = {[t EXCEPT !.columns = columnsOf(t.id)] : t \in @}]
    /\ UNCHANGED <<db, nOps>>
    /\ TablesFrame

\* The client has its response and can send the next request.
receiveResponse(c) ==
    /\ tableReqs[c].pc = "done"
    /\ tableReqs' = [tableReqs EXCEPT ![c] = IdleRequest]
    /\ UNCHANGED <<db, nOps>>
    /\ TablesFrame

\* A database the routes have left behind: no relationships, and the tables
\* of S1 differ by more than letter case.
InitTables ==
    /\ db \in {d \in DbStates : /\ d.relationships = {}
                                /\ \A t \in d.tables : t.id # "t_Users"}
    /\ httpLog = [made |-> FALSE]
    /\ clientCall = [made |-> FALSE]
    /\ compiled = [made |-> FALSE]
    /\ DesignerInit
    /\ IdleValidation
    /\ IdleTables
    /\ IdleRate
    /\ IdleRest

NextTables ==
    \/ \E c \in Clients, name \in TableNames : postTable(c, name)
    \/ \E c \in Clients : postTable_insertTable(c)
    \/ \E c \in Clients : postTable_insertColumn(c)
    \/ \E c \in Clients, tableId \in {t.id : t \in db.tables} \cup {NotATable},
          name \in TableNames \cup {UNDEF} : putTable(c, tableId, name)
    \/ \E c \in Clients : putTable_update(c)
    \/ \E c \in Clients : getSchema(c)
    \/ \E c \in Clients : getSchema_columns(c)
    \/ \E c \in Clients : receiveResponse(c)

SpecTables == InitTables /\ [][NextTables]_vars

(***************************************************************************)
(* Socket.IO: io.on('connection') and the handlers it installs.            *)
(* socket.to(room).emit(...) puts one event on the wire per socket of the  *)
(* room other than the sender; the transport delivers them one by one.     *)
(* A socket's inbox is the last event it received.                         *)
(***************************************************************************)
\* .slice(0, 50)
TypeLimit == 50

\* JavaScript values a sender can put in changes.type.
JsString(chars) == [t |-> "string", chars |-> chars, n |-> 0]
JsNumber(n) == [t |-> "number", chars |-> <<>>, n |-> n]
JsUndefined == [t |-> "undefined", chars |-> <<>>, n |-> 0]

TableMoved == JsString(<< "t", "a", "b", "l", "e", "_", "m", "o", "v", "e", "d" >>)
LongType == JsString([i \in 1..(TypeLimit + 1) |-> "x"])

\* changes.type || ''
OrEmpty(v) ==
    IF \/ v.t = "undefined"
       \/ v.t = "string" /\ v.chars = <<>>
       \/ v.t = "number" /\ v.n = 0
    THEN JsString(<<>>)
    ELSE v

Digits == << "0", "1", "2", "3", "4", "5", "6", "7", "8", "9" >>

\* String(v) for the values above (numbers of one digit).
String(v) ==
    IF v.t = "string" THEN v
    ELSE IF v.t = "number" THEN JsString(<< Digits[v.n + 1] >>)
    ELSE JsString(<< "u", "n", "d", "e", "f", "i", "n", "e", "d" >>)

\* str.slice(0, end)
slice(str, end) ==
    JsString(SubSeq(str.chars, 1, IF Len(str.chars) < end THEN Len(str.chars) ELSE end))

\* A changes object: whether it is there at all, whether it has an own
\* property `type`, and that property's value.
Changes(present, hasType, type) == [present |-> present, hasType |-> hasType, type |-> type]

ChangesSent ==
    { Changes(FALSE, FALSE, JsUndefined),
      Changes(TRUE, FALSE, JsUndefined),
      Changes(TRUE, TRUE, TableMoved),
      Changes(TRUE, TRUE, LongType),
      Changes(TRUE, TRUE, JsNumber(7)) }

\* { type: String(changes.type || '').slice(0, 50), ...changes }: the spread
\* comes last, so an own property `type` of changes replaces the first one.
sanitizedChanges(changes) ==
    [type |-> IF changes.hasType
              THEN changes.type
              ELSE slice(String(OrEmpty(changes.type)), TypeLimit)]

Event(name, to, clientId, room, type, message) ==
    [event |-> name, to |-> to, clientId |-> clientId, room |-> room,
     type |-> type, message |-> message]

\* socket.to(room).emit(name, ...): every socket of the room but the sender.
Broadcast(c, room, name, type) ==
    { Event(name, d, c, room, type, "") :
        d \in {d \in SocketIds : d # c /\ room \in sockets.rooms[d]} }

\* socket.emit('error', { message })
ErrorTo(c, message) == { Event("error", c, c, "", JsUndefined, message) }

WireHolds(events) == Cardinality(sockets.wire \cup events) <= MaxInFlight

SocketsFrame ==
    UNCHANGED <<designerVars, sqlVars, validationVars, tablesVars, rateVars,
                storeVars, listVars>>

\* io.on('connection', socket => ...)
connection(c) ==
    /\ sockets.conn[c] = "new"
    /\ sockets' = [sockets EXCEPT !.conn[c] = "connected"]
    /\ SocketsFrame

\* socket.on('join_schema', data): data.schemaId is a schema id or missing.
join_schema(c, schemaId) ==
    /\ sockets.conn[c] = "connected"
    /\ IF schemaId = UNDEF
       THEN /\ WireHolds(ErrorTo(c, "Invalid schema ID"))
            /\ sockets' = [sockets EXCEPT !.wire = @ \cup ErrorTo(c, "Invalid schema ID")]
       ELSE /\ WireHolds(Broadcast(c, schemaId, "user_joined", JsUndefined))
            /\ sockets' = [sockets EXCEPT
                              !.rooms[c] = @ \cup {schemaId},
                              !.wire = @ \cup Broadcast(c, schemaId, "user_joined", JsUndefined)]
    /\ SocketsFrame

\* socket.on('update_schema', data)
update_schema(c, schemaId, changes) ==
    /\ sockets.conn[c] = "connected"
    /\ LET events == IF schemaId = UNDEF \/ ~changes.present
                     THEN ErrorTo(c, "Invalid update data")
                     ELSE Broadcast(c, schemaId, "schema_updated",
                                    sanitizedChanges(changes).type)
       IN  /\ WireHolds(events)
           /\ sockets' = [sockets EXCEPT !.wire = @ \cup events]
    /\ SocketsFrame

\* The client goes away.  Socket.IO takes the socket out of its rooms and
\* drops what was on its way to it; the 'disconnect' handler writes a log
\* line and emits nothing.
disconnect(c) ==
    /\ sockets.conn[c] = "connected"
    /\ sockets' = [sockets EXCEPT
                      !.conn[c] = "disconnected",
                      !.departed[c] = sockets.rooms[c],
                      !.rooms[c] = {},
                      !.wire = {m \in @ : m.to # c}]
    /\ SocketsFrame

\* The transport hands an event to its socket.
deliver(m) ==
    /\ m \in sockets.wire
    /\ sockets' = [sockets EXCEPT !.wire = @ \ {m}, !.inbox[m.to] = m]
    /\ SocketsFrame

Delivery == \E m \in sockets.wire : deliver(m)

InitSockets ==
    /\ IdleSockets
    /\ IdleStore
    /\ IdleList
    /\ DesignerInit
    /\ IdleSql
    /\ IdleValidation
    /\ IdleTables
    /\ IdleRate

NextSockets ==
    \/ \E c \in SocketIds : connection(c)
    \/ \E c \in SocketIds, schemaId \in {S1, UNDEF} : join_schema(c, schemaId)
    \/ \E c \in SocketIds, schemaId \in {S1, UNDEF}, changes \in ChangesSent :
          update_schema(c, schemaId, changes)
    \/ \E c \in SocketIds : disconnect(c)
    \/ Delivery

\* The transport does not hold an event back for ever.
SpecSockets == InitSockets /\ [][NextSockets]_vars /\ WF_vars(Delivery)

(***************************************************************************)
(* useSchemaStore: the async actions of schemaStore.js.  An action runs up *)
(* to its await, the API call settles later (resolves or rejects), and     *)
(* other actions can start in between.  store.settled is the record of the *)
(* call that settled last: the state before it started, the state right    *)
(* after its try/catch ran, and whether the error reached the caller.      *)
(***************************************************************************)
Position(x, y) == [x |-> x, y |-> y]
StoreTable(id, position) == [id |-> id, position |-> position]
StoreRelationship(id, source, target) ==
    [id |-> id, sourceTableId |-> source, targetTableId |-> target]

\* A store after loadSchemas and loadSchema of a schema of two tables.
LoadedStore ==
    [EmptyStore EXCEPT
        !.schemas = << "schema-1" >>,
        !.currentSchema =
            [id |-> "schema-1",
             tables |-> << StoreTable("t1", Position(100, 200)),
                           StoreTable("t2", Position(300, 150)) >>,
             relationships |-> << StoreRelationship("r1", "t1", "t2") >>]]

\* What the API answers: ids of the rows it created.
NewSchemas == << "schema-2", "schema-3", "schema-4", "schema-5" >>
NewStoreTables == << "t3", "t4", "t5", "t6" >>

\* error.message of a rejected API call (apiClient.js interceptor).
FailureMessages == {"Server error - please try again later"}

Requested == Position(500, 40)

StoreBudget == nOps < MaxStoreCalls

StoreFrame ==
    /\ UNCHANGED <<currentSchema, editingTable, sqlOutput, clock>>
    /\ UNCHANGED <<sqlVars, validationVars, tablesVars, rateVars, socketVars, listVars>>

SnapshotOf(state) ==
    Snapshot(state.schemas, state.currentSchema, state.isLoading, state.error)

Call(action, schemaId, tableId, position, state) ==
    [id |-> nOps + 1, action |-> action, schemaId |-> schemaId, tableId |-> tableId,
     position |-> position, before |-> SnapshotOf(state), version |-> 0]

\* set({ isLoading: true, error: null }), then the API call goes out.
begin(call) ==
    store' = [store EXCEPT !.isLoading = TRUE, !.error = NULL,
                           !.pending = @ \cup {[call EXCEPT !.version = store.version]}]

createSchema ==
    /\ StoreBudget
    /\ nOps' = nOps + 1
    /\ begin(Call("createSchema", "", "", Position(0, 0), store))
    /\ StoreFrame

deleteSchema(schemaId) ==
    /\ StoreBudget
    /\ nOps' = nOps + 1
    /\ begin(Call("deleteSchema", schemaId, "", Position(0, 0), store))
    /\ StoreFrame

\* if (!get().currentSchema) throw new Error('No schema selected')
createTable ==
    /\ StoreBudget
    /\ nOps' = nOps + 1
    /\ IF store.currentSchema.id = NULL
       THEN store' = [store EXCEPT !.settled =
                         [made |-> TRUE, id |-> nOps + 1, action |-> "createTable",
                          tableId |-> "", outcome |-> "no schema",
                          message |-> "No schema selected", rethrown |-> TRUE,
                          undisturbed |-> TRUE,
                          before |-> SnapshotOf(store), after |-> SnapshotOf(store)]]
       ELSE begin(Call("createTable", store.currentSchema.id, "", Position(0, 0), store))
    /\ StoreFrame

\* The store's deleteTable.  if (!get().currentSchema) return
deleteTable_store(tableId) ==
    /\ StoreBudget
    /\ store.currentSchema.id # NULL
    /\ nOps' = nOps + 1
    /\ begin(Call("deleteTable", store.currentSchema.id, tableId, Position(0, 0), store))
    /\ StoreFrame

\* table.position = position for the table found
Moved(tables, tableId, position) ==
    [i \in DOMAIN tables |->
        IF tables[i].id = tableId THEN [tables[i] EXCEPT !.position = position]
        ELSE tables[i]]

\* The optimistic update, then apiClient.updateTable goes out.
updateTablePosition(tableId, position) ==
    /\ StoreBudget
    /\ store.currentSchema.id # NULL
    /\ nOps' = nOps + 1
    /\ LET call == Call("updateTablePosition", store.currentSchema.id, tableId,
                        position, store)
       IN  store' = [store EXCEPT
                        !.currentSchema.tables = Moved(@, tableId, position),
                        !.version = @ + 1,
                        !.pending = @ \cup {[call EXCEPT !.version = store.version + 1]}]
    /\ StoreFrame

\* The set(...) of the try block once the awaited call has resolved.
resolved(state, call) ==
    CASE call.action = "createSchema" ->
            LET created == [id |-> NewSchemas[call.id], tables |-> <<>>,
                            relationships |-> <<>>]
            IN  [state EXCEPT !.schemas = << created.id >> \o @,
                              !.currentSchema = created,
                              !.isLoading = FALSE]
      [] call.action = "deleteSchema" ->
            [state EXCEPT !.schemas = SelectSeq(@, LAMBDA id : id # call.schemaId),
                          !.currentSchema = IF @.id = call.schemaId THEN NoSchema ELSE @,
                          !.isLoading = FALSE]
      [] call.action = "createTable" ->
            [state EXCEPT !.currentSchema.tables =
                              IF state.currentSchema.id # NULL
                              THEN Append(@, StoreTable(NewStoreTables[call.id], Position(0, 0)))
                              ELSE @,
                          !.isLoading = FALSE]
      [] call.action = "deleteTable" ->
            [state EXCEPT !.currentSchema.tables =
                              SelectSeq(@, LAMBDA t : t.id # call.tableId),
                          !.currentSchema.relationships =
                              SelectSeq(@, LAMBDA r : /\ r.sourceTableId # call.tableId
                                                      /\ r.targetTableId # call.tableId),
                          !.isLoading = FALSE]
      [] OTHER -> state

\* The catch block of createSchema, deleteSchema, createTable, deleteTable:
\* set({ error: error.message, isLoading: false }); throw error
failure_stillLoading(state, message) == [state EXCEPT !.error = message]

failure(state, message) == [state EXCEPT !.error = message, !.isLoading = FALSE]

\* The catch block of updateTablePosition: console.error and a comment.
\* The error is swallowed and the store is left as the optimistic update
\* made it.
positionFailure(state) == state

Settled(call, outcome, message, rethrown, after) ==
    [made |-> TRUE, id |-> call.id, action |-> call.action, tableId |-> call.tableId,
     outcome |-> outcome, message |-> message, rethrown |-> rethrown,
     undisturbed |-> store.version = call.version,
     before |-> call.before, after |-> SnapshotOf(after)]

resolve(call) ==
    /\ call \in store.pending
    /\ LET after == resolved(store, call)
       IN  store' = [after EXCEPT
                        !.pending = @ \ {call},
                        !.version = IF call.action = "updateTablePosition" THEN @ ELSE @ + 1,
                        !.settled = Settled(call, "resolved", "", FALSE, after)]
    /\ UNCHANGED nOps
    /\ StoreFrame

reject(call, message) ==
    /\ call \in store.pending
    /\ LET swallowed == call.action = "updateTablePosition"
           after == IF swallowed THEN positionFailure(store) ELSE failure(store, message)
       IN  store' = [after EXCEPT
                        !.pending = @ \ {call},
                        !.settled = Settled(call, "rejected", message, ~swallowed, after)]
    /\ UNCHANGED nOps
    /\ StoreFrame

StoreTableIds == {store.currentSchema.tables[i].id : i \in DOMAIN store.currentSchema.tables}

InitStore ==
    /\ store \in {EmptyStore, LoadedStore}
    /\ IdleSockets
    /\ IdleList
    /\ DesignerInit
    /\ IdleSql
    /\ IdleValidation
    /\ IdleTables
    /\ IdleRate

NextStore ==
    \/ createSchema
    \/ \E i \in DOMAIN store.schemas : deleteSchema(store.schemas[i])
    \/ createTable
    \/ \E tableId \in StoreTableIds : deleteTable_store(tableId)
    \/ \E tableId \in StoreTableIds : updateTablePosition(tableId, Requested)
    \/ \E call \in store.pending : resolve(call)
    \/ \E call \in store.pending, message \in FailureMessages : reject(call, message)

SpecStore == InitStore /\ [][NextStore]_vars

(***************************************************************************)
(* GET /schemas: the page query, the count query and the pagination.       *)
(* A query's placeholders are bound by position from its parameter array.  *)
(***************************************************************************)
SqlNull == "NULL"

\* listQuery defaults (validation schemas).
DefaultPage == 1
DefaultLimit == 10

SchemaRow(id, name, description, user_id) ==
    [id |-> id, name |-> name, description |-> description, user_id |-> user_id]

CollaboratorRow(schema_id, user_id, is_active) ==
    [schema_id |-> schema_id, user_id |-> user_id, is_active |-> is_active]

CandidateSchemas ==
    { SchemaRow("s1", "shop", "online shop", "u1"),
      SchemaRow("s2", "blog", "", "u2"),
      SchemaRow("s3", "crm", "", "u1") }

CandidateCollaborators ==
    { CollaboratorRow("s2", "u1", 1), CollaboratorRow("s1", "u2", 0) }

\* The columns ORDER BY s.<sortBy> can name: those of init.js, and user_id
\* where the accounts tables exist.
SchemaColumns ==
    {"id", "name", "description", "is_public", "version", "metadata",
     "created_at", "updated_at", "user_id"}

\* a = b in SQL: not true when either side is NULL.
SqlEq(a, b) == a # SqlNull /\ b # SqlNull /\ a = b

\* `%${search}%`
Pattern(search) == "%" \o search \o "%"

\* text LIKE pattern on the texts and patterns that occur.
Like(text, pattern) ==
    \/ pattern = Pattern("shop") /\ text \in {"shop", "online shop"}
    \/ pattern # SqlNull /\ text = pattern

\* Placeholder i takes parameter i; a placeholder without a parameter stays
\* NULL.
Bind(params, placeholders) ==
    [i \in 1..placeholders |-> IF i <= Len(params) THEN params[i] ELSE SqlNull]

\* LEFT JOIN schema_collaborators sc ON s.id = sc.schema_id AND sc.user_id = ?
\* AND sc.is_active = 1: the matching rows, or one row of NULLs.
LeftJoin(s, joinUser) ==
    LET matching == {sc \in schemaRows.collaborators :
                        /\ sc.schema_id = s.id
                        /\ SqlEq(sc.user_id, joinUser)
                        /\ sc.is_active = 1}
    IN  IF matching = {} THEN {CollaboratorRow(SqlNull, SqlNull, SqlNull)} ELSE matching

\* (s.user_id = ? OR sc.user_id = ?) [AND (s.name LIKE ? OR s.description LIKE ?)]
\* with bound[1] the join's placeholder and the WHERE clause's after it.
whereClause(s, sc, bound, search) ==
    /\ SqlEq(s.user_id, bound[2]) \/ SqlEq(sc.user_id, bound[3])
    /\ search # UNDEF => (Like(s.name, bound[4]) \/ Like(s.description, bound[5]))

\* The distinct schema ids a query selects under a binding.
Selected(bound, search) ==
    { s.id : s \in { s \in schemaRows.schemas :
                        \E sc \in LeftJoin(s, bound[1]) : whereClause(s, sc, bound, search) } }

queryParams(userId, search) ==
    IF search = UNDEF THEN << userId, userId >>
    ELSE << userId, userId, Pattern(search), Pattern(search) >>

Placeholders(search) == IF search = UNDEF THEN 3 ELSE 5

\* allQuery(page query, [...queryParams, userId, limit, offset])
pageRows(userId, search, limit, offset) ==
    Selected(Bind(queryParams(userId, search) \o << userId, limit, offset >>,
                  Placeholders(search)), search)

\* getQuery(count query, [userId, ...queryParams.slice(2)])
totalResult(userId, search) ==
    Cardinality(Selected(Bind(<< userId >> \o Tail(Tail(queryParams(userId, search))),
                              Placeholders(search)), search))

\* Math.ceil(total / limit)
Ceil(total, limit) == (total + limit - 1) \div limit

ListFailed(userId, search, limit) ==
    [made |-> TRUE, userId |-> userId, search |-> search, limit |-> limit,
     status |-> 500, code |-> "INTERNAL_SERVER_ERROR", returned |-> 0,
     total |-> 0, totalPages |-> 0]

\* What the driver does with fewer parameters than placeholders: it leaves
\* the rest NULL, or it refuses the statement.
ShortBindings == {"null", "error"}

ListFrame ==
    /\ nOps' = nOps + 1
    /\ UNCHANGED <<currentSchema, editingTable, sqlOutput, clock, schemaRows>>
    /\ UNCHANGED <<sqlVars, validationVars, tablesVars, rateVars, socketVars, storeVars>>

\* router.get('/'), after authenticate and validate('listQuery', 'query').
listSchemas(userId, query, shortBinding) ==
    /\ RequestBudget
    /\ LET page == DefaultPage
           limit == IF query.limitGiven THEN query.limit ELSE DefaultLimit
           sortBy == IF query.sortBy = UNDEF THEN "updatedAt" ELSE query.sortBy
           search == query.search
           offset == (page - 1) * limit
           rows == pageRows(userId, search, limit, offset)
           left == Cardinality(rows) - offset
           total == totalResult(userId, search)
       IN  listLog' =
             IF ~schemaRows.authTables \/ sortBy \notin SchemaColumns
             THEN ListFailed(userId, search, limit)
             ELSE IF shortBinding = "error"
             THEN ListFailed(userId, search, limit)
             ELSE [made |-> TRUE, userId |-> userId, search |-> search, limit |-> limit,
                   status |-> 200, code |-> "",
                   returned |-> IF left < 0 THEN 0 ELSE IF left < limit THEN left ELSE limit,
                   total |-> total, totalPages |-> Ceil(total, limit)]
    /\ ListFrame

\* Queries without a page; limit is given as 2 or left out.
ListQueries ==
    [limitGiven : BOOLEAN, limit : {2}, search : {UNDEF, "shop"}, sortBy : {UNDEF, "name"}]

\* The schemas and collaborators tables with some rows.  init.js creates no
\* users and no schema_collaborators table and no user_id column; the route's
\* queries need them (authTables).
InitList ==
    /\ schemaRows \in [schemas : SUBSET CandidateSchemas,
                       collaborators : SUBSET CandidateCollaborators,
                       authTables : BOOLEAN]
    /\ listLog = [made |-> FALSE]
    /\ IdleSockets
    /\ IdleStore
    /\ DesignerInit
    /\ IdleSql
    /\ IdleValidation
    /\ IdleTables
    /\ IdleRate

NextList ==
    \E userId \in {"u1", "u2"}, query \in ListQueries, shortBinding \in ShortBindings :
        listSchemas(userId, query, shortBinding)

SpecList == InitList /\ [][NextList]_vars

(***************************************************************************)
(* Reading a generated script.                                             *)
(***************************************************************************)
IsCreate(stmt) == stmt.kind = "CREATE TABLE"
IsAlter(stmt) == stmt.kind = "ALTER TABLE"
Count(script, P(_)) == Len(SelectSeq(script, P))

\* The sqlOutput area shows the script of the schema as it is now.
Fresh == sqlOutput = generateSQL(currentSchema)

(***************************************************************************)
(* Validation issues of a designer schema, as the specification lists them. *)
(***************************************************************************)
DuplicateTableName(schema) ==
    \E i, j \in DOMAIN schema.tables :
        i # j /\ Lower(schema.tables[i].name) = Lower(schema.tables[j].name)

DuplicateColumnName(schema) ==
    \E t \in DOMAIN schema.tables : \E i, j \in DOMAIN schema.tables[t].columns :
        i # j /\ Lower(schema.tables[t].columns[i].name) = Lower(schema.tables[t].columns[j].name)

HasColumn(schema, tableName, columnName) ==
    \E t \in DOMAIN schema.tables :
        /\ schema.tables[t].name = tableName
        /\ \E c \in DOMAIN schema.tables[t].columns : schema.tables[t].columns[c].name = columnName

DanglingReference(schema) ==
    \E r \in DOMAIN schema.relationships :
        \/ ~HasColumn(schema, schema.relationships[r].sourceTable, schema.relationships[r].sourceColumn)
        \/ ~HasColumn(schema, schema.relationships[r].targetTable, schema.relationships[r].targetColumn)

HasValidationIssue(schema) ==
    DuplicateTableName(schema) \/ DuplicateColumnName(schema) \/ DanglingReference(schema)

(***************************************************************************)
(* C1: for every schema, cyclic or not, the designer's generation yields a *)
(* script with one CREATE TABLE per table and one ALTER TABLE per          *)
(* relationship, and every CREATE TABLE statement comes before every       *)
(* ALTER TABLE ... ADD CONSTRAINT statement.                               *)
(***************************************************************************)
C1_CreateBeforeAlter ==
    /\ Count(sqlOutput, IsCreate) = Len(currentSchema.tables)
    /\ Count(sqlOutput, IsAlter) = Len(currentSchema.relationships)
    /\ \A i, j \in DOMAIN sqlOutput :
            IsCreate(sqlOutput[i]) /\ IsAlter(sqlOutput[j]) => i < j

\* The cyclic schema (A references B, B references A) has been generated.
C1_Witness ==
    /\ currentSchema = cyclicSchema
    /\ Count(sqlOutput, IsCreate) = 2
    /\ Count(sqlOutput, IsAlter) = 2

(***************************************************************************)
(* C4: whenever the schema has a validation issue, generation returns no   *)
(* SQL text at all.                                                        *)
(***************************************************************************)
C4_NoSqlWithIssues ==
    (Fresh /\ HasValidationIssue(currentSchema)) => sqlOutput = <<>>

(***************************************************************************)
(* C7: the script has exactly one ALTER TABLE ... ADD CONSTRAINT per       *)
(* relationship, and for a relationship from S(s) to T(t) it is            *)
(* ALTER TABLE T ADD CONSTRAINT fk_T_S FOREIGN KEY (t) REFERENCES S(s)     *)
(* followed by the relationship's ON DELETE and ON UPDATE actions.         *)
(***************************************************************************)
ExpectedForeignKeyText(rel) ==
    "ALTER TABLE " \o rel.targetTable \o " ADD CONSTRAINT fk_"
        \o rel.targetTable \o "_" \o rel.sourceTable \o " "
        \o "FOREIGN KEY (" \o rel.targetColumn \o ") REFERENCES "
        \o rel.sourceTable \o "(" \o rel.sourceColumn \o ")"
        \o (IF rel.onDelete = "" THEN "" ELSE " ON DELETE " \o rel.onDelete)
        \o (IF rel.onUpdate = "" THEN "" ELSE " ON UPDATE " \o rel.onUpdate)
        \o ";\n\n"

C7_ForeignKeyStatements ==
    Fresh =>
        /\ Count(sqlOutput, IsAlter) = Len(currentSchema.relationships)
        /\ \A r \in DOMAIN currentSchema.relationships :
                sqlOutput[Len(currentSchema.tables) + r].text
                    = ExpectedForeignKeyText(currentSchema.relationships[r])

(***************************************************************************)
(* C8: the constraint names of one generated script are pairwise distinct. *)
(***************************************************************************)
C8_DistinctConstraintNames ==
    \A i, j \in DOMAIN sqlOutput :
        (i # j /\ IsAlter(sqlOutput[i]) /\ IsAlter(sqlOutput[j]))
            => sqlOutput[i].constraint # sqlOutput[j].constraint

(***************************************************************************)
(* C3: a SQL-generation request whose dialect is not one of mysql,         *)
(* postgresql, sqlite, mssql gets no SQL text back, neither over HTTP nor  *)
(* through apiClient.generateSQL.                                          *)
(***************************************************************************)
C3_UnknownDialectGetsNoSql ==
    /\ (httpLog.made /\ httpLog.query.dialect \notin KnownDialects \cup {UNDEF})
            => ~httpLog.hasSql
    /\ (clientCall.made /\ clientCall.options.dialect \notin KnownDialects \cup {UNDEF})
            => ~clientCall.outcome.ok

(***************************************************************************)
(* C6: when includeConstraints is false the generated output contains no   *)
(* ALTER TABLE statement (neither ADD CONSTRAINT nor DROP CONSTRAINT),     *)
(* whatever relationships the schema has.                                  *)
(***************************************************************************)
IsDropConstraint(stmt) == stmt.kind = "DROP CONSTRAINT"
IsDropTable(stmt) == stmt.kind = "DROP TABLE"
IsDrop(stmt) == IsDropConstraint(stmt) \/ IsDropTable(stmt)

C6_NoAlterWithoutConstraints ==
    (compiled.made /\ compiled.result.ok /\ ~compiled.options.includeConstraints)
        => /\ Count(compiled.result.sql, IsAlter) = 0
           /\ Count(compiled.result.sql, IsDropConstraint) = 0

\* A schema with two relationships or more was compiled without constraints.
C6_Witness ==
    /\ compiled.made
    /\ compiled.result.ok
    /\ ~compiled.options.includeConstraints
    /\ compiled.options.includeDropStatements
    /\ Len(compiled.relationships) >= 2
    /\ Count(compiled.result.sql, IsCreate) = 2

(***************************************************************************)
(* C9: when includeDropStatements is true the script begins with one       *)
(* constraint-drop per relationship, then one table-drop per table, and    *)
(* only then the CREATE TABLE and ALTER TABLE phases; when it is false     *)
(* (or absent) the script has no DROP statement.                           *)
(***************************************************************************)
DropsFirst(sql, nRelationships, nTables) ==
    /\ Len(sql) >= nRelationships + nTables
    /\ \A i \in DOMAIN sql :
        /\ i <= nRelationships => IsDropConstraint(sql[i])
        /\ (nRelationships < i /\ i <= nRelationships + nTables) => IsDropTable(sql[i])
        /\ i > nRelationships + nTables => ~IsDrop(sql[i])
    /\ Count(sql, IsCreate) = nTables
    /\ Count(sql, IsAlter) = nRelationships

NoDrops(sql) == Count(sql, IsDrop) = 0

C9_DropPhaseFirst ==
    /\ (httpLog.made /\ httpLog.status = 200) =>
            LET nRelationships == Len(relationshipsData(db, httpLog.schemaId))
                nTables == Len(tablesData(db, httpLog.schemaId))
            IN  /\ httpLog.query.includeDropStatements = "true"
                        => DropsFirst(httpLog.sql, nRelationships, nTables)
                /\ httpLog.query.includeDropStatements \in {"false", UNDEF}
                        => NoDrops(httpLog.sql)
    /\ (clientCall.made /\ clientCall.outcome.ok) =>
            LET nRelationships == Len(relationshipsData(db, clientCall.schemaId))
                nTables == Len(tablesData(db, clientCall.schemaId))
            IN  /\ clientCall.options.includeDropStatements = JSTRUE
                        => DropsFirst(clientCall.outcome.sql, nRelationships, nTables)
                /\ clientCall.options.includeDropStatements \in {JSFALSE, UNDEF}
                        => NoDrops(clientCall.outcome.sql)

\* The client asked for drop statements on a schema of two tables and three
\* relationships, and the script came back.
C9_Witness ==
    /\ clientCall.made
    /\ clientCall.outcome.ok
    /\ clientCall.options.includeDropStatements = JSTRUE
    /\ httpLog.query.includeDropStatements = "true"
    /\ Count(clientCall.outcome.sql, IsDropConstraint) = 3
    /\ Count(clientCall.outcome.sql, IsDropTable) = 2
    /\ Count(clientCall.outcome.sql, IsAlter) = 3

(***************************************************************************)
(* C10: in a script generated with includeDropStatements, the tables       *)
(* dropped are the tables created and the constraints dropped are the      *)
(* constraints added, same names on the same tables, each dropped once.    *)
(***************************************************************************)
TablesOf(sql, P(_)) == { sql[i].table : i \in {k \in DOMAIN sql : P(sql[k])} }
ConstraintsOf(sql, P(_)) ==
    { <<sql[i].table, sql[i].constraint>> : i \in {k \in DOMAIN sql : P(sql[k])} }

DropCreateSymmetry(sql) ==
    /\ TablesOf(sql, IsDropTable) = TablesOf(sql, IsCreate)
    /\ Count(sql, IsDropTable) = Count(sql, IsCreate)
    /\ ConstraintsOf(sql, IsDropConstraint) = ConstraintsOf(sql, IsAlter)
    /\ Count(sql, IsDropConstraint) = Count(sql, IsAlter)

C10_DropCreateSymmetry ==
    /\ (compiled.made /\ compiled.result.ok /\ compiled.options.includeDropStatements)
            => DropCreateSymmetry(compiled.result.sql)
    /\ (httpLog.made /\ httpLog.status = 200 /\ httpLog.options.includeDropStatements)
            => DropCreateSymmetry(httpLog.sql)

\* Two relationships share the pair (orders, users): the second constraint
\* carries a suffix, and it is dropped under that name.
C10_Witness ==
    /\ compiled.made
    /\ compiled.result.ok
    /\ compiled.options.includeDropStatements
    /\ compiled.options.includeConstraints
    /\ <<"orders", "fk_orders_users_2">> \in ConstraintsOf(compiled.result.sql, IsDropConstraint)
    /\ <<"orders", "fk_orders_users_2">> \in ConstraintsOf(compiled.result.sql, IsAlter)
    /\ TablesOf(compiled.result.sql, IsDropTable) = {"orders", "users"}

(***************************************************************************)
(* C5: validation does not stop at the first defect: for an input with N   *)
(* independent defects the returned list has exactly N entries, one per    *)
(* defect; with no defect the request passes on.                           *)
(***************************************************************************)
DefectiveFields(query) ==
    { k \in Range(sqlExportKeys) :
        /\ query[k] # UNDEF
        /\ (k = "dialect" => query[k] \notin {"mysql", "postgresql", "sqlite", "mssql"})
        /\ (k # "dialect" => query[k] \notin {"true", "false"}) }

DefectiveParams(params) == { n \in {"schemaId", "tableId"} : params[n] \notin {S1, S2} }

C5_OneIssuePerDefect ==
    /\ (req.made /\ req.middleware = "validate") =>
            /\ res.next <=> DefectiveFields(req.query) = {}
            /\ Len(res.details) = Cardinality(DefectiveFields(req.query))
            /\ \A k \in DefectiveFields(req.query) :
                    Cardinality({i \in DOMAIN res.details : res.details[i].field = k}) = 1
    /\ (req.made /\ req.middleware = "validateUUIDs") =>
            /\ res.next <=> DefectiveParams(req.params) = {}
            /\ Len(res.details) = Cardinality(DefectiveParams(req.params))
            /\ \A n \in DefectiveParams(req.params) :
                    Cardinality({i \in DOMAIN res.details :
                                    res.details[i] = "Invalid " \o n \o " format"}) = 1

\* A query string with four defective fields was validated and answered 400
\* with four details.
C5_Witness ==
    /\ req.made
    /\ req.middleware = "validate"
    /\ Cardinality(DefectiveFields(req.query)) = 4
    /\ res.status = 400
    /\ Len(res.details) = 4

(***************************************************************************)
(* C11: no CREATE TABLE statement of the designer's script carries a       *)
(* FOREIGN KEY or REFERENCES clause; a foreign key appears only in an      *)
(* ALTER TABLE statement placed after every CREATE TABLE, also for a       *)
(* column that a relationship makes a referencing column.                  *)
(***************************************************************************)
ForeignKeyClauses == {"FOREIGN KEY", "REFERENCES"}

C11_NoInlineForeignKey ==
    \A i \in DOMAIN sqlOutput :
        IsCreate(sqlOutput[i]) =>
            /\ \A c \in DOMAIN sqlOutput[i].clauses :
                    Range(sqlOutput[i].clauses[c]) \cap ForeignKeyClauses = {}
            /\ \A j \in DOMAIN sqlOutput : IsAlter(sqlOutput[j]) => i < j

\* The template is loaded: orders.user_id references users.id, the script
\* creates orders and adds the foreign key in an ALTER TABLE.
C11_Witness ==
    /\ Fresh
    /\ \E r \in DOMAIN currentSchema.relationships :
            /\ currentSchema.relationships[r].targetTable = "orders"
            /\ currentSchema.relationships[r].targetColumn = "user_id"
    /\ \E i \in DOMAIN sqlOutput : IsCreate(sqlOutput[i]) /\ sqlOutput[i].table = "orders"
    /\ \E j \in DOMAIN sqlOutput : IsAlter(sqlOutput[j]) /\ sqlOutput[j].table = "orders"

(***************************************************************************)
(* C12: each table yields exactly one CREATE TABLE statement, its columns  *)
(* in stored order, each column 'name type' followed by PRIMARY KEY iff    *)
(* primary key, NOT NULL iff required, UNIQUE iff unique, in that order.   *)
(***************************************************************************)
ExpectedColumnText(column) ==
    "  " \o column.name \o " " \o column.type
        \o (IF column.primaryKey THEN " PRIMARY KEY" ELSE "")
        \o (IF column.required THEN " NOT NULL" ELSE "")
        \o (IF column.unique THEN " UNIQUE" ELSE "")

ExpectedCreateText(table) ==
    "CREATE TABLE " \o table.name \o " (\n"
        \o Join([i \in DOMAIN table.columns |-> ExpectedColumnText(table.columns[i])], ",\n")
        \o "\n);\n\n"

C12_ColumnDefinitions ==
    Fresh =>
        /\ Count(sqlOutput, IsCreate) = Len(currentSchema.tables)
        /\ \A t \in DOMAIN currentSchema.tables :
                sqlOutput[t].text = ExpectedCreateText(currentSchema.tables[t])

(***************************************************************************)
(* C13: GET /schemas/:id/sql without includeComments runs the generator    *)
(* with includeComments = true, without includeDropStatements with         *)
(* includeDropStatements = false; an explicit 'true' / 'false' is passed   *)
(* through unchanged.                                                      *)
(***************************************************************************)
ExpectedFlag(value, default) ==
    IF value = UNDEF THEN default ELSE value = "true"

C13_OptionDefaults ==
    (httpLog.made /\ httpLog.status # 400) =>
        /\ httpLog.options.includeComments
                = ExpectedFlag(httpLog.query.includeComments, TRUE)
        /\ httpLog.options.includeDropStatements
                = ExpectedFlag(httpLog.query.includeDropStatements, FALSE)

(***************************************************************************)
(* C15: in the designer, every relationship's source and target table is   *)
(* a table of the current schema, and every table named in an ALTER TABLE  *)
(* statement of the script has a CREATE TABLE statement in the same script. *)
(***************************************************************************)
TableNamesOf(schema) == { schema.tables[i].name : i \in DOMAIN schema.tables }

C15_AlterNamesCreatedTable ==
    /\ \A r \in DOMAIN currentSchema.relationships :
            /\ HasTable(currentSchema, currentSchema.relationships[r].sourceTable)
            /\ HasTable(currentSchema, currentSchema.relationships[r].targetTable)
    /\ Fresh =>
            \A j \in DOMAIN sqlOutput :
                IsAlter(sqlOutput[j]) =>
                    \E i \in DOMAIN sqlOutput :
                        IsCreate(sqlOutput[i]) /\ sqlOutput[i].table = sqlOutput[j].table

C17_AutoIncrementNeedsInteger ==
    (req.made /\ req.middleware = "validateColumn" /\ res.next) =>
        ~(res.value.isAutoIncrement = JSTRUE /\ res.value.dataType \notin IntegerKinds)

(***************************************************************************)
(* C20: POST /ai/analyze with a valid schemaId in the body, for a schema   *)
(* the user has access to, passes the validation middleware, reaches the   *)
(* handler and returns success with an analysis object.                    *)
(***************************************************************************)
C20_AnalyzeReachesHandler ==
    (req.made /\ req.middleware = "analyze" /\ req.body.schemaId \in AccessibleSchemas) =>
        /\ res.next
        /\ res.status = 200
        /\ res.value = "analysis"

(***************************************************************************)
(* C18: for every request on a rate-limited path, next() is called if and  *)
(* only if the limiter accepted the request's key; when the limiter        *)
(* rejects, the middleware sends exactly one 429 response with code        *)
(* RATE_LIMIT_EXCEEDED and a Retry-After header.                           *)
(***************************************************************************)
C18_RejectedGets429 ==
    rateLog.made =>
        /\ rateLog.next <=> rateLog.accepted
        /\ ~rateLog.accepted =>
                /\ rateLog.responses = 1
                /\ rateLog.status = 429
                /\ rateLog.code = "RATE_LIMIT_EXCEEDED"
                /\ rateLog.retryAfter

\* C14: after any sequence of create-table and rename requests, no two tables
\* of a schema have names that are equal ignoring letter case.
C14_NamesUniqueIgnoringCase ==
    \A t1 \in db.tables : \A t2 \in db.tables :
        (t1.id # t2.id /\ t1.schema_id = t2.schema_id)
            => Lower(t1.name) # Lower(t2.name)

\* C19: a create-table request whose name exists is answered 409
\* DUPLICATE_RESOURCE, and of two concurrent create-table requests with the
\* same new name one is answered 201 and the other 409 DUPLICATE_RESOURCE.
IsDuplicateResponse(r) == r.status = 409 /\ r.code = "DUPLICATE_RESOURCE"

C19_DuplicateCreateGets409 ==
    /\ \A c \in Clients :
          LET r == tableReqs[c]
          IN  (r.kind = "create" /\ r.pc = "done" /\ r.existing) => IsDuplicateResponse(r)
    /\ \A c1 \in Clients : \A c2 \in Clients :
          LET r1 == tableReqs[c1]
              r2 == tableReqs[c2]
          IN  ( /\ c1 # c2
                /\ r1.kind = "create" /\ r2.kind = "create"
                /\ r1.pc = "done" /\ r2.pc = "done"
                /\ r1.name = r2.name
                /\ ~r1.existing /\ ~r2.existing )
              => \/ r1.status = 201 /\ IsDuplicateResponse(r2)
                 \/ r2.status = 201 /\ IsDuplicateResponse(r1)

\* C21: when a client that has joined a schema room disconnects, every other
\* client still in that room eventually receives a user_left event for it.
C21_UserLeftDelivered ==
    \A c \in SocketIds : \A d \in SocketIds : \A room \in {S1} :
        (c # d /\ room \in sockets.departed[c] /\ room \in sockets.rooms[d])
            ~> \/ sockets.inbox[d].event = "user_left" /\ sockets.inbox[d].clientId = c
               \/ room \notin sockets.rooms[d]

\* C25: every schema_updated event relayed carries a changes.type that is a
\* string of at most 50 characters, and goes to a member of the room other
\* than its sender.
C25_RelayedTypeSanitized ==
    \A m \in sockets.wire :
        m.event = "schema_updated"
            => /\ m.type.t = "string"
               /\ Len(m.type.chars) <= TypeLimit
               /\ m.to # m.clientId
               /\ m.room \in sockets.rooms[m.to]

\* C22: every table a read request observes has its default 'id' column
\* (INTEGER, primary key, required, auto-increment, order 0), and a
\* create-table request that ended in an error has left no table row.
DefaultIdColumn ==
    [name |-> "id", dataType |-> "INTEGER", isPrimaryKey |-> TRUE, isRequired |-> TRUE,
     isAutoIncrement |-> TRUE, orderIndex |-> 0]

C22_ObservedTablesHaveIdColumn ==
    \A c \in Clients :
        LET r == tableReqs[c]
        IN  /\ (r.kind = "read" /\ r.pc = "done")
                => \A t \in r.observed : DefaultIdColumn \in t.columns
            /\ (r.kind = "create" /\ r.pc = "done" /\ r.status >= 400)
                => \A t \in db.tables : t.id # r.tableId

PositionIn(snapshot, tableId) ==
    LET tables == snapshot.currentSchema.tables
        i == CHOOSE i \in DOMAIN tables : tables[i].id = tableId
    IN  tables[i].position

\* C24: updateTablePosition is optimistic with revert: when the updateTable
\* call fails the table's position is the one it had before the call, when it
\* succeeds the position is the requested one.
C24_PositionRevertedOnFailure ==
    LET call == store.settled
    IN  (call.made /\ call.action = "updateTablePosition" /\ call.undisturbed)
            => IF call.outcome = "rejected"
               THEN PositionIn(call.after, call.tableId) = PositionIn(call.before, call.tableId)
               ELSE PositionIn(call.after, call.tableId) = Requested

FramedActions == {"createSchema", "deleteSchema", "createTable", "deleteTable"}

\* C26: when the API call of createSchema, deleteSchema, createTable or
\* deleteTable rejects, schemas, currentSchema.tables and
\* currentSchema.relationships are what they were before the action started,
\* error holds the failure message, isLoading is false and the error is
\* rethrown to the caller.
C26_FailureFrame ==
    LET call == store.settled
    IN  (call.made /\ call.action \in FramedActions /\ call.outcome = "rejected")
            => /\ call.after.error = call.message
               /\ ~call.after.isLoading
               /\ call.rethrown
               /\ call.undisturbed
                    => /\ call.after.schemas = call.before.schemas
                       /\ call.after.currentSchema = call.before.currentSchema

C26_Witness ==
    LET call == store.settled
    IN  /\ call.made /\ call.action = "deleteTable" /\ call.outcome = "rejected"
        /\ call.undisturbed
        /\ Len(call.before.currentSchema.tables) > 1
        /\ store.error \in FailureMessages

\* The schemas the user owns or collaborates on that match the search.
Listable(userId, search) ==
    { s.id : s \in { s \in schemaRows.schemas :
        /\ \/ s.user_id = userId
           \/ \E sc \in schemaRows.collaborators :
                 sc.schema_id = s.id /\ sc.user_id = userId /\ sc.is_active = 1
        /\ search # UNDEF => (Like(s.name, Pattern(search))
                              \/ Like(s.description, Pattern(search))) } }

\* C23: GET /schemas returns pagination.total equal to the number of distinct
\* schemas that satisfy the owner-or-collaborator and search filter, and
\* totalPages = ceil(total / limit).
C23_TotalCountsListableSchemas ==
    (listLog.made /\ listLog.status = 200)
        => /\ listLog.total = Cardinality(Listable(listLog.userId, listLog.search))
           /\ listLog.totalPages = Ceil(listLog.total, listLog.limit)

====
